---- MODULE Spec2Model ----
(***************************************************************************)
(* Additive synthesizer (synadd): the polyphonic voice bank.               *)
(*                                                                         *)
(* AdditiveVoice (audio/AdditiveVoice.ts) and VoicePool (audio/VoicePool)  *)
(* are modelled method by method.  The Web Audio objects they drive are    *)
(* modelled by what the methods do to them:                                *)
(*   - an OscillatorNode is a record of its PeriodicWave table and of the  *)
(*     frequency last written to it;                                       *)
(*   - a PeriodicWave coefficient pair (A/127*sin(p), A/127*cos(p)) is     *)
(*     kept symbolically as <<A, p mod 360>>, and as <<0, 0>> when A = 0   *)
(*     (both products are then 0 whatever the phase);                      *)
(*   - a frequency base * n * 2^(cents/1200) is kept as the triple         *)
(*     [base, n, cents];                                                   *)
(*   - the AudioParam voiceGain.gain is the list of its scheduled events.  *)
(* Time is counted in units of 5 ms, for both clocks.                      *)
(***************************************************************************)
EXTENDS Integers, Naturals, Sequences, FiniteSets, TLC

\* ---------------------------------------------------------------- bounds
MaxNote == 9          \* notes are 1..MaxNote
MaxPerf == 11         \* last value of performance.now() that is modelled
MaxTime == 3          \* last value of ctx.currentTime that is modelled
MaxArr  == 2          \* spectrum arrays the control layer keeps alive
MaxExtra == 1         \* calls besides the first press of each key; caller writes
MaxShort == 3         \* noteOn calls of a short run
MaxHarm == 2          \* harmonics of a spectrum handed to a single voice
MaxAlias == 2         \* noteOn calls of a run in which the caller writes
MaxPartials == 1      \* partials of a preset read from a file
MaxEdits == 3         \* calls of the control layer in a run
MaxSparse == 2        \* partials of a sparse list given to the library
MaxBins == 3          \* harmonics asked of the analyzer
MaxSynth == 2         \* harmonics of a spectrum given to the synthesizer
MaxCalls == 3         \* calls of setState, undo and redo in a run
MaxValues == 2        \* values handed to setState
MaxKeyEvents == 4     \* key events delivered in a run
MaxTicks == 3         \* steps of performance.now() in a run
TickMs == 30          \* milliseconds of a step of performance.now()

\* ------------------------------------------------------- program constants
POOL_SIZE == 8
ATTACK_TIME == 2      \* 0.01 s = 2 units of 5 ms
MAX_HARMONICS == 32
MAX_AMPLITUDE == 127

NULL == "null"
\* null where the other values are numbers (midiNote) or records (nodes)
NoNote == -1
NoNode == [null |-> TRUE]

VoiceIds == 1..POOL_SIZE
Notes == 1..MaxNote
\* Frequencies are kept on the scale of cents above 440 Hz.
Hz440 == 0
Hz220 == -1200
Freqs == {Hz220, Hz440}
ArrIds == 1..MaxArr

Min(a, b) == IF a < b THEN a ELSE b
Max(a, b) == IF a > b THEN a ELSE b

\* ------------------------------------------------------------- harmonics
Harmonic(i, a, p, t, m) ==
  [id |-> i, amplitude |-> a, phase |-> p, tuning |-> t, mute |-> m]

ZeroCoef == <<0, 0>>

\* real = A/127 * sin(phase), imag = A/127 * cos(phase)
Coef(h) ==
  IF h.amplitude = 0 THEN ZeroCoef ELSE <<h.amplitude, h.phase % 360>>

Frequency(base, n, cents) == [base |-> base, n |-> n, cents |-> cents]

\* number of harmonics the loops of the voice run over
LoopCount(count, s) == Min(count, Len(s))

\* A table is its length and the coefficient pairs of the slots 1..n the
\* loop runs over; slot 0 (DC) and the slots after n stay 0.
buildPrimaryPeriodicWave(count, s) ==
  [size |-> count + 1,
   coefs |-> [k \in 1..LoopCount(count, s) |->
                IF s[k].mute \/ s[k].tuning # 0 THEN ZeroCoef ELSE Coef(s[k])]]

buildSingleHarmonicWave(h) ==
  [size |-> 2, coefs |-> <<Coef(h)>>]

\* 0-based indices i of the harmonics that need an oscillator of their own
NewDetunedIndices(count, s) ==
  {i \in 0..(LoopCount(count, s) - 1) : ~s[i + 1].mute /\ s[i + 1].tuning # 0}

\* the elements of a set of integers in increasing order
RECURSIVE Ascending(_)
Ascending(S) ==
  IF S = {} THEN <<>>
  ELSE LET m == CHOOSE x \in S : \A y \in S : x <= y
       IN <<m>> \o Ascending(S \ {m})

DetunedOscillator(base, i, h) ==
  [harmonicIndex |-> i,
   wave |-> buildSingleHarmonicWave(h),
   frequency |-> Frequency(base, i + 1, h.tuning)]

\* ------------------------------------------------------ AudioParam events
SetValue(v, t) == [type |-> "setValue", value |-> v, time |-> t]
ExpRamp(v, t)  == [type |-> "expRamp", value |-> v, time |-> t]

cancelScheduledValues(events, t) ==
  SelectSeq(events, LAMBDA e : e.time < t)

\* an event goes after the events that are not later than it
InsertEvent(events, e) ==
  SelectSeq(events, LAMBDA x : x.time <= e.time) \o <<e>> \o
  SelectSeq(events, LAMBDA x : x.time > e.time)

setValueAtTime(events, v, t) == InsertEvent(events, SetValue(v, t))

exponentialRampToValueAtTime(events, v, t) == InsertEvent(events, ExpRamp(v, t))

\* The events the engine still needs at time t: the last one it has applied
\* (it holds the value, and starts a ramp that follows) and the later ones.
Consume(events, t) ==
  LET applied == {k \in 1..Len(events) : events[k].time <= t}
      from == IF applied = {} THEN 1
              ELSE CHOOSE k \in applied : \A j \in applied : j <= k
  IN SubSeq(events, from, Len(events))

\* --------------------------------------------------------- AdditiveVoice
\* created / stopped count the oscillators a call creates and stops; running
\* counts the oscillators started and not stopped (the audio graph's view).
NewVoice ==
  [primaryOsc |-> NoNode,
   primaryGain |-> NULL,
   detunedOscs |-> <<>>,
   gainEvents |-> <<>>,
   connected |-> TRUE,
   baseFrequency |-> Hz440,
   isPlaying |-> FALSE,
   harmonics |-> 0,
   harmonicCount |-> MAX_HARMONICS,
   oscillatorsCreated |-> FALSE,
   running |-> 0,
   created |-> 0,
   stopped |-> 0]

LiveOscillators(v) ==
  (IF v.primaryOsc = NoNode THEN 0 ELSE 1) + Len(v.detunedOscs)

cleanupOscillators(v) ==
  [v EXCEPT !.primaryOsc = NoNode,
            !.primaryGain = NULL,
            !.detunedOscs = <<>>,
            !.oscillatorsCreated = FALSE,
            !.running = v.running - LiveOscillators(v),
            !.stopped = v.stopped + LiveOscillators(v)]

rebuildOscillators(v, s) ==
  LET c == cleanupOscillators(v)
      idx == Ascending(NewDetunedIndices(c.harmonicCount, s))
      det == [j \in 1..Len(idx) |->
                DetunedOscillator(c.baseFrequency, idx[j], s[idx[j] + 1])]
  IN [c EXCEPT !.primaryOsc =
                  [wave |-> buildPrimaryPeriodicWave(c.harmonicCount, s),
                   frequency |-> Frequency(c.baseFrequency, 1, 0)],
               !.primaryGain = "gain",
               !.detunedOscs = det,
               !.oscillatorsCreated = TRUE,
               !.running = c.running + 1 + Len(det),
               !.created = c.created + 1 + Len(det)]

CurrentDetunedIndices(v) ==
  {v.detunedOscs[j].harmonicIndex : j \in 1..Len(v.detunedOscs)}

UpdatePrimary(v, s) ==
  IF v.primaryOsc = NoNode THEN v
  ELSE [v EXCEPT !.primaryOsc =
                   [wave |-> buildPrimaryPeriodicWave(v.harmonicCount, s),
                    frequency |-> Frequency(v.baseFrequency, 1, 0)]]

UpdateDetuned(v, s) ==
  [v EXCEPT !.detunedOscs =
     [j \in 1..Len(v.detunedOscs) |->
        LET d == v.detunedOscs[j]
        IN IF d.harmonicIndex + 1 > Len(s) THEN d
           ELSE DetunedOscillator(v.baseFrequency, d.harmonicIndex,
                                  s[d.harmonicIndex + 1])]]

\* an updateOscillators that never rebuilds
updateInPlace(v, s) ==
  IF ~v.oscillatorsCreated THEN v ELSE UpdateDetuned(UpdatePrimary(v, s), s)

updateOscillators(v, s) ==
  IF ~v.oscillatorsCreated THEN v
  ELSE LET p == UpdatePrimary(v, s)
       IN IF CurrentDetunedIndices(p) # NewDetunedIndices(p.harmonicCount, s)
             THEN rebuildOscillators(p, s)
             ELSE UpdateDetuned(p, s)

\* an attack scheduled on top of what is scheduled already
RetriggerNoCancel(events, now) ==
  exponentialRampToValueAtTime(setValueAtTime(events, 0, now), 1, now + ATTACK_TIME)

Retrigger(events, now) ==
  exponentialRampToValueAtTime(
    setValueAtTime(cancelScheduledValues(events, now), 0, now),
    1, now + ATTACK_TIME)

\* a start that keeps the base frequency of a voice that has oscillators
startKeepFrequency(v, s, frequency, now) ==
  LET f == IF v.oscillatorsCreated THEN v
           ELSE [v EXCEPT !.baseFrequency = frequency]
      o == IF ~f.oscillatorsCreated THEN rebuildOscillators(f, s)
           ELSE updateOscillators(f, s)
  IN [o EXCEPT !.isPlaying = TRUE,
               !.gainEvents = Retrigger(o.gainEvents, now)]

start(v, s, frequency, now) ==
  LET f == [v EXCEPT !.baseFrequency = frequency]
      o == IF ~f.oscillatorsCreated THEN rebuildOscillators(f, s)
           ELSE updateOscillators(f, s)
  IN [o EXCEPT !.isPlaying = TRUE,
               !.gainEvents = Retrigger(o.gainEvents, now)]

\* a mute that leaves the scheduled changes in place
MuteNoCancel(events, now) ==
  setValueAtTime(events, 0, now)

Mute(events, now) ==
  setValueAtTime(cancelScheduledValues(events, now), 0, now)

\* a stop that schedules nothing
stopNoMute(v, now) ==
  IF ~v.isPlaying THEN v ELSE [v EXCEPT !.isPlaying = FALSE]

\* a stop that mutes and leaves the voice Active
stopKeepPlaying(v, now) ==
  IF ~v.isPlaying THEN v
  ELSE [v EXCEPT !.gainEvents = Mute(v.gainEvents, now)]

stop(v, now) ==
  IF ~v.isPlaying THEN v
  ELSE [v EXCEPT !.gainEvents = Mute(v.gainEvents, now),
                 !.isPlaying = FALSE]

setFrequency(v, s, frequency) ==
  LET f == [v EXCEPT !.baseFrequency = frequency]
  IN IF f.isPlaying THEN updateOscillators(f, s) ELSE f

\* an updateHarmonics that stores nothing in a voice that is not playing
updateHarmonicsPlaying(v, a, s) ==
  IF v.isPlaying
     THEN updateOscillators([v EXCEPT !.harmonics = a, !.harmonicCount = Len(s)], s)
     ELSE v

\* a is the array passed, s its contents at the time of the call
updateHarmonics(v, a, s) ==
  LET h == [v EXCEPT !.harmonics = a, !.harmonicCount = Len(s)]
  IN IF h.isPlaying THEN updateOscillators(h, s) ELSE h

dispose(v) ==
  [cleanupOscillators(v) EXCEPT !.connected = FALSE]

\* ------------------------------------------------------- the control layer
\* Numbers read from a file or typed are kept in tenths, so that rounding is
\* something that happens; the Harmonics of a spectrum hold whole numbers.
MathRound(t) == (t + 5) \div 10

\* JavaScript's %: the result has the sign of the dividend
JsRem(a, b) == IF a >= 0 THEN a % b ELSE 0 - ((0 - a) % b)

\* a partial as read: an absent phase or tuning reads as 0, an absent mute as
\* false
Partial(i, a, p, t, m) ==
  [id |-> i, amplitude |-> a, phase |-> p, tuning |-> t, mute |-> m]

\* a compression that rounds the phase and does not reduce it modulo 360
compressNoReduce(hs) ==
  LET kept == SelectSeq(hs, LAMBDA h : ~h.mute /\ h.amplitude # 0)
  IN [k \in 1..Len(kept) |->
        [id |-> kept[k].id, amplitude |-> MathRound(kept[k].amplitude),
         phase |-> MathRound(kept[k].phase),
         tuning |-> MathRound(kept[k].tuning)]]

\* the entries compressHarmonics keeps, rounded; a phase or tuning of 0 is
\* left out of the entry, and an entry never carries mute
compressHarmonics(hs) ==
  LET kept == SelectSeq(hs, LAMBDA h : ~h.mute /\ h.amplitude # 0)
  IN [k \in 1..Len(kept) |->
        [id |-> kept[k].id,
         amplitude |-> MathRound(kept[k].amplitude),
         phase |-> JsRem(MathRound(kept[k].phase), 360),
         tuning |-> MathRound(kept[k].tuning)]]

\* an overlay of the id and the amplitude only
AssignAmplitude(h, p) == [h EXCEPT !.id = p.id, !.amplitude = p.amplitude]

\* Object.assign(harmonics[index], partial): the fields the entry carries
Assign(h, p) ==
  [h EXCEPT !.id = p.id,
            !.amplitude = p.amplitude,
            !.phase = IF p.phase # 0 THEN p.phase ELSE @,
            !.tuning = IF p.tuning # 0 THEN p.tuning ELSE @]

RECURSIVE ApplyPartials(_, _, _)
ApplyPartials(hs, ps, k) ==
  IF k > Len(ps) THEN hs
  ELSE ApplyPartials(
         IF ps[k].id > Len(hs) THEN hs
         ELSE [hs EXCEPT ![ps[k].id] = Assign(@, ps[k])],
         ps, k + 1)

\* a loader that keeps the sparse list as the spectrum: one Harmonic per
\* partial, in the order of the list
loadSparse(partials, count) ==
  LET c == compressHarmonics(partials)
  IN [k \in 1..Len(c) |->
        Harmonic(c[k].id, c[k].amplitude, c[k].phase, c[k].tuning, FALSE)]

loadHarmonics(partials, count) ==
  ApplyPartials([i \in 1..count |-> Harmonic(i, 0, 0, 0, FALSE)],
                compressHarmonics(partials), 1)

\* a spectrum of whole numbers, as the numbers a reader of partials sees
AsPartials(hs) ==
  [k \in 1..Len(hs) |->
     Partial(hs[k].id, 10 * hs[k].amplitude, 10 * hs[k].phase,
             10 * hs[k].tuning, hs[k].mute)]

createSineHarmonics ==
  loadHarmonics(<<Partial(1, 10 * MAX_AMPLITUDE, 0, 0, FALSE)>>, MAX_HARMONICS)

\* Math.round(MAX_AMPLITUDE / n)
createSawtoothHarmonics ==
  loadHarmonics([i \in 1..MAX_HARMONICS |->
                   Partial(i, 10 * ((2 * MAX_AMPLITUDE + i) \div (2 * i)),
                           0, 0, FALSE)],
                MAX_HARMONICS)

BUILT_IN_PRESETS == <<createSineHarmonics, createSawtoothHarmonics>>

getDefaultHarmonics == BUILT_IN_PRESETS[1]

\* ------------------------------------------------------------------ state
VARIABLES
  voice,      \* voice[i]: the AdditiveVoice object of pool slot i
  pool,       \* VoicePool.voices: entries [voice, midiNote, startTime]
  heap,       \* contents of the spectrum arrays (0: a voice's initial [])
  ctxTime,    \* AudioContext.currentTime
  perfNow,    \* performance.now()
  last,       \* the call made last and the branch it took
  pressed,    \* keys pressed so far: keys are numbered by first press
  extra,      \* calls made so far that a run has a budget for
  latest,     \* the spectrum passed by the most recent updateHarmonics call
  harmonics,        \* useSynthEngine: the spectrum being edited
  harmonicCount,    \* useSynthEngine: the number of harmonics in use
  detuningAllowed,  \* useSynthEngine: whether tunings reach the voices
  isDrawMode,       \* useSynthEngine: whether the canvas takes strokes
  userPresets,      \* the presets kept in localStorage
  past,             \* useHistory: the spectra undo goes back to, oldest first
  future,           \* useHistory: the spectra redo goes on to, next first
  args,             \* the arguments the library functions are called with
  result,           \* what the library function called last returned
  hist,             \* useHistory: state, stacks and queued updaters
  kbd               \* useKeyboardInput: refs, state, clock and callbacks

\* the control layer's variables
ctl == <<harmonics, harmonicCount, detuningAllowed, isDrawMode, userPresets,
         past, future>>

vars == <<voice, pool, heap, ctxTime, perfNow, last, pressed, extra, latest,
          harmonics, harmonicCount, detuningAllowed, isDrawMode, userPresets,
          past, future, args, result, hist, kbd>>

\* the variables of the calls made to the library functions directly
lib == <<args, result>>

\* the variables of the two input hooks
ui == <<hist, kbd>>

NoArgs == [kind |-> "none"]

NoLibraryCall == args = NoArgs /\ result = <<>>

NoCall == [op |-> "none", note |-> 0, freq |-> 0, slot |-> 0, path |-> "none"]

Call(op, note, freq, slot, path) ==
  [op |-> op, note |-> note, freq |-> freq, slot |-> slot, path |-> path]

\* new VoicePool(), and the clocks and counters of a run
InitPool ==
  /\ pool = [i \in VoiceIds |->
               [voice |-> i, midiNote |-> NoNote, startTime |-> 0]]
  /\ ctxTime = 0
  /\ perfNow = 0
  /\ last = NoCall
  /\ pressed = 0
  /\ extra = 0

\* the initial values of useSynthEngine's state, and an empty localStorage
InitEngine ==
  /\ harmonics = getDefaultHarmonics
  /\ harmonicCount = 16
  /\ detuningAllowed = TRUE
  /\ isDrawMode = FALSE
  /\ userPresets = <<>>
  /\ past = <<>>
  /\ future = <<>>

\* useHistory(initialState): the initial value, empty stacks, no updater
\* queued; calls is the record of the calls made to the hook
NewHistory ==
  [state |-> 0, past |-> <<>>, future |-> <<>>, queue |-> <<>>, calls |-> <<>>]

\* useKeyboardInput(): empty refs and state at time 0; emitted is the
\* record of the callbacks made, events counts the key events delivered
NewKeyboard ==
  [physicalKeys |-> <<>>, visualKeys |-> {}, keyPressTime |-> <<>>,
   pendingReleases |-> <<>>, activeKeys |-> {}, currentNote |-> 0,
   now |-> 0, emitted |-> <<>>, events |-> 0]

InitUi == hist = NewHistory /\ kbd = NewKeyboard

\* a pool just constructed: no spectrum has been handed to it
Init ==
  /\ InitPool
  /\ InitEngine
  /\ NoLibraryCall
  /\ InitUi
  /\ voice = [i \in VoiceIds |-> NewVoice]
  /\ heap = [a \in 0..MaxArr |-> <<>>]
  /\ latest = <<>>

\* the spectrum a voice reads through its harmonics field
Stored(v) == heap[v.harmonics]

\* every call starts with its per-call counters at zero
Fresh(v) == [v EXCEPT !.created = 0, !.stopped = 0]

\* a find that sees the idle slots only
FindIdleOnly(entries, n) ==
  IF n = NoNote /\ \E k \in 1..Len(entries) : entries[k].midiNote = NoNote
     THEN CHOOSE k \in 1..Len(entries) :
            /\ entries[k].midiNote = NoNote
            /\ \A j \in 1..(k - 1) : entries[j].midiNote # NoNote
     ELSE 0

\* Array.prototype.find: index of the first entry with the note, 0 if none
FindNote(entries, n) ==
  IF \E k \in 1..Len(entries) : entries[k].midiNote = n
     THEN CHOOSE k \in 1..Len(entries) :
            /\ entries[k].midiNote = n
            /\ \A j \in 1..(k - 1) : entries[j].midiNote # n
     ELSE 0

\* a reduce that keeps the entry started last
Newest(entries) ==
  CHOOSE k \in 1..Len(entries) :
    \A j \in 1..Len(entries) : entries[k].startTime >= entries[j].startTime

\* reduce((oldest, current) => current.startTime < oldest.startTime ? ...)
Oldest(entries) ==
  CHOOSE k \in 1..Len(entries) :
    /\ \A j \in 1..Len(entries) : entries[k].startTime <= entries[j].startTime
    /\ \A j \in 1..(k - 1) : entries[j].startTime > entries[k].startTime

\* the slot noteOn gives to a note no voice holds, and how it got it
Allocate(entries) ==
  IF FindNote(entries, NoNote) # 0
     THEN [slot |-> FindNote(entries, NoNote), path |-> "idle"]
     ELSE [slot |-> Oldest(entries), path |-> "steal"]

\* The array a caller allocates for the voices in `updated`, which all drop
\* the array they held: the smallest array no other voice refers to.  (Array
\* identities are names: an array no voice refers to any more gives its
\* name to the next one.)
NewArray(updated) ==
  LET free == {a \in ArrIds : \A i \in VoiceIds \ updated : voice[i].harmonics # a}
  IN CHOOSE a \in free : \A b \in free : a <= b

\* arrays no voice refers to any more are dropped
Collect(h, vs) ==
  [a \in DOMAIN h |->
     IF a = 0 \/ \E i \in VoiceIds : vs[i].harmonics = a THEN h[a] ELSE <<>>]

\* --------------------------------------------------------------- VoicePool
\* (on a disposed pool the reduce over the empty list throws before anything
\* is written: no step)
NoteOn(n, f) ==
  /\ pool # <<>>
  /\ perfNow < MaxPerf
  /\ n <= pressed + 1
  /\ pressed' = Max(pressed, n)
  /\ perfNow' = perfNow + 1
  /\ LET existing == FindNote(pool, n)
         fv == [i \in VoiceIds |-> Fresh(voice[i])]
     IN IF existing # 0
        THEN LET id == pool[existing].voice
             IN /\ voice' = [fv EXCEPT ![id] =
                               start(fv[id], Stored(fv[id]), f, ctxTime)]
                /\ pool' = [pool EXCEPT ![existing].startTime = perfNow']
                /\ last' = Call("noteOn", n, f, existing, "retrigger")
        ELSE LET al == Allocate(pool)
                 id == pool[al.slot].voice
                 st == IF al.path = "steal" THEN stop(fv[id], ctxTime)
                       ELSE fv[id]
             IN /\ voice' = [fv EXCEPT ![id] =
                               start(st, Stored(st), f, ctxTime)]
                /\ pool' = [pool EXCEPT ![al.slot].midiNote = n,
                                        ![al.slot].startTime = perfNow']
                /\ last' = Call("noteOn", n, f, al.slot, al.path)
  /\ UNCHANGED <<heap, ctxTime, latest>>

NoteOff(n) ==
  /\ n <= pressed + 1
  /\ LET k == FindNote(pool, n)
         fv == [i \in VoiceIds |-> Fresh(voice[i])]
     IN IF k # 0
        THEN /\ voice' = [fv EXCEPT ![pool[k].voice] =
                            stop(fv[pool[k].voice], ctxTime)]
             /\ pool' = [pool EXCEPT ![k].midiNote = NoNote]
             /\ last' = Call("noteOff", n, 0, k, "found")
        ELSE /\ voice' = fv
             /\ pool' = pool
             /\ last' = Call("noteOff", n, 0, 0, "absent")
  /\ UNCHANGED <<heap, ctxTime, perfNow, pressed, latest>>

AllNotesOff ==
  /\ LET held == {pool[k].voice : k \in {j \in 1..Len(pool) :
                                            pool[j].midiNote # NoNote}}
     IN voice' = [i \in VoiceIds |->
                    IF i \in held THEN stop(Fresh(voice[i]), ctxTime)
                    ELSE Fresh(voice[i])]
  /\ pool' = [k \in 1..Len(pool) |-> [pool[k] EXCEPT !.midiNote = NoNote]]
  /\ last' = Call("allNotesOff", 0, 0, 0, "none")
  /\ UNCHANGED <<heap, ctxTime, perfNow, pressed, latest>>

\* for (const entry of this.voices) entry.voice.updateHarmonics(harmonics)
UpdateVoices(s) ==
  LET members == {pool[k].voice : k \in 1..Len(pool)}
      a == NewArray(members)
      vs == [i \in VoiceIds |->
               IF i \in members THEN updateHarmonics(Fresh(voice[i]), a, s)
               ELSE Fresh(voice[i])]
  IN /\ voice' = vs
     /\ heap' = Collect([heap EXCEPT ![a] = s], vs)
     /\ latest' = s

PoolUpdateHarmonics(s) ==
  /\ UpdateVoices(s)
  /\ last' = Call("updateHarmonics", 0, 0, 0, "none")
  /\ UNCHANGED <<pool, ctxTime, perfNow, pressed>>

PoolDispose ==
  /\ voice' = [i \in VoiceIds |->
                 IF \E k \in 1..Len(pool) : pool[k].voice = i
                    THEN dispose(Fresh(voice[i])) ELSE Fresh(voice[i])]
  /\ pool' = <<>>
  /\ last' = Call("dispose", 0, 0, 0, "none")
  /\ UNCHANGED <<heap, ctxTime, perfNow, pressed, latest>>

\* the rendering engine's clock moves on
AdvanceRender ==
  /\ ctxTime < MaxTime
  /\ ctxTime' = ctxTime + 1
  /\ voice' = [i \in VoiceIds |->
                 [voice[i] EXCEPT !.gainEvents = Consume(@, ctxTime')]]
  /\ UNCHANGED <<pool, heap, perfNow, last, pressed, latest>>

\* spectra the control layer hands to the pool
PoolSpectra ==
  { <<Harmonic(1, 127, 0, 0, FALSE)>>,
    <<Harmonic(1, 127, 0, 0, FALSE), Harmonic(2, 64, 90, 15, FALSE)>> }

\* 440 * 2^((midiNote - 69) / 12)
midiToFrequency(midiNote) == 100 * (midiNote - 69)

\* the first press of the next key, at the frequency of the key
Press ==
  /\ pressed < MaxNote
  /\ NoteOn(pressed + 1, midiToFrequency(pressed + 1))

\* any other call of the pool, or a step of the rendering clock
Other ==
  \/ \E n \in Notes, f \in Freqs : NoteOn(n, f)
  \/ \E n \in Notes : NoteOff(n)
  \/ AllNotesOff
  \/ \E s \in PoolSpectra : PoolUpdateHarmonics(s)
  \/ PoolDispose
  \/ AdvanceRender

Next ==
  \/ Press /\ UNCHANGED <<extra, ctl, lib, ui>>
  \/ extra < MaxExtra /\ extra' = extra + 1 /\ Other
     /\ UNCHANGED <<ctl, lib, ui>>

Spec == Init /\ [][Next]_vars

\* Short runs: every interleaving of the pool's calls, with at most MaxShort
\* noteOn calls.
NextShort ==
  /\ \/ \E n \in Notes, f \in Freqs : perfNow < MaxShort /\ NoteOn(n, f)
     \/ \E n \in Notes : NoteOff(n)
     \/ AllNotesOff
     \/ \E s \in PoolSpectra : PoolUpdateHarmonics(s)
  /\ UNCHANGED <<extra, ctl, lib, ui>>

SpecShort == Init /\ [][NextShort]_vars

\* ------------------------------------- the caller's writes to its own array
\* The caller of updateHarmonics keeps the array it passed and writes to it:
\* it replaces the fields of the Harmonic object at position k ...
CallerWrite(a, k, h) ==
  /\ \E i \in VoiceIds : voice[i].harmonics = a
  /\ k \in 1..Len(heap[a])
  /\ heap[a][k] # h
  /\ heap' = [heap EXCEPT ![a][k] = h]
  /\ voice' = [i \in VoiceIds |-> Fresh(voice[i])]
  /\ last' = Call("write", 0, 0, k, "element")
  /\ UNCHANGED <<pool, ctxTime, perfNow, pressed, latest>>

\* ... or removes the last element of the array
CallerPop(a) ==
  /\ \E i \in VoiceIds : voice[i].harmonics = a
  /\ Len(heap[a]) > 0
  /\ heap' = [heap EXCEPT ![a] = SubSeq(@, 1, Len(@) - 1)]
  /\ voice' = [i \in VoiceIds |-> Fresh(voice[i])]
  /\ last' = Call("write", 0, 0, Len(heap[a]), "length")
  /\ UNCHANGED <<pool, ctxTime, perfNow, pressed, latest>>

\* what the caller writes into the Harmonic object at position k
WriteKinds(k) ==
  { Harmonic(k, 64, 90, 0, FALSE), Harmonic(k, 127, 0, 15, FALSE),
    Harmonic(k, 127, 0, 0, TRUE) }

\* Short runs of the pool with a caller that writes, at most MaxExtra times,
\* to the arrays it passed.
\* The pool's calls leave the budget alone, a write of the caller uses it.
PoolCall ==
  \/ \E n \in Notes, f \in Freqs : perfNow < MaxAlias /\ NoteOn(n, f)
  \/ \E n \in Notes : NoteOff(n)
  \/ \E s \in PoolSpectra : PoolUpdateHarmonics(s)

CallerCall ==
  \/ \E a \in ArrIds, k \in 1..MaxHarm : \E h \in WriteKinds(k) :
       CallerWrite(a, k, h)
  \/ \E a \in ArrIds : CallerPop(a)

NextAlias ==
  \/ PoolCall /\ UNCHANGED <<extra, ctl, lib, ui>>
  \/ extra < MaxExtra /\ extra' = extra + 1 /\ CallerCall
     /\ UNCHANGED <<ctl, lib, ui>>

SpecAlias == Init /\ [][NextAlias]_vars

\* ------------------------------------------------- useSynthEngine and its UI
\* harmonics.slice(0, harmonicCount), with the tunings zeroed when detuning
\* is disabled
effectiveHarmonics(hs, count, allowed) ==
  LET sl == SubSeq(hs, 1, Min(count, Len(hs)))
  IN IF allowed THEN sl
     ELSE [k \in 1..Len(sl) |-> [sl[k] EXCEPT !.tuning = 0]]

\* the rows the harmonic list shows: harmonics.slice(0, harmonicCount)
visibleHarmonics(hs, count) == SubSeq(hs, 1, Min(count, Len(hs)))

\* prev.map((h) => (h.id === id ? { ...h, ...updates } : h)), for an update
\* of one field
setHarmonic(prev, id, field, value) ==
  [k \in 1..Len(prev) |->
     IF prev[k].id = id THEN [prev[k] EXCEPT ![field] = value] ELSE prev[k]]

\* the ranges the rows of the harmonic list give their sliders
MAX_PHASE == 360
MIN_TUNING == -100
MAX_TUNING == 100

FieldMin(field) == IF field = "tuning" THEN MIN_TUNING ELSE 0

FieldMax(field) ==
  IF field = "amplitude" THEN MAX_AMPLITUDE
  ELSE IF field = "phase" THEN MAX_PHASE ELSE MAX_TUNING

\* Math.min(max, Math.max(min, newValue))
Clamp(x, lo, hi) == Min(hi, Max(lo, x))

\* A buffer holds whole numbers of 1/FullScale: the sample 1.0 is FullScale.
\* The buffers analysed have NumSamples samples, so that every angle of the
\* transform is a whole number of quarter turns and its cosine and sine are
\* taken as exactly 0, 1 or -1.
FullScale == 200
NumSamples == 4

Cos4(q) == <<1, 0, -1, 0>>[(q % 4) + 1]
Sin4(q) == <<0, 1, 0, -1>>[(q % 4) + 1]

Abs(x) == IF x < 0 THEN 0 - x ELSE x

RECURSIVE SqrtBetween(_, _, _)
SqrtBetween(n, lo, hi) ==
  IF lo >= hi THEN lo
  ELSE LET mid == (lo + hi + 1) \div 2
       IN IF mid * mid <= n THEN SqrtBetween(n, mid, hi)
          ELSE SqrtBetween(n, lo, mid - 1)

\* Math.sqrt, rounded down to a whole number
Sqrt(n) == SqrtBetween(n, 0, 5000)

\* the slopes a / b, 0 <= a <= b, whose angle is tabulated
Tabulated(a, b) == a = 0 \/ a = b \/ 2 * a = b \/ FullScale * a = b

\* the angle of the slope a / b in tenths of a degree: atan(1/200) = 0.29,
\* atan(1/2) = 26.57, atan(1) = 45
AtanRatio(a, b) ==
  IF a = 0 THEN 0
  ELSE IF a = b THEN 450
  ELSE IF 2 * a = b THEN 266
  ELSE 3

\* an arctangent that takes its arguments in the other order
Atan2Swapped(y, x) ==
  IF x = 0 /\ y = 0 THEN 0
  ELSE LET base == IF Abs(x) <= Abs(y) THEN AtanRatio(Abs(x), Abs(y))
                   ELSE 900 - AtanRatio(Abs(y), Abs(x))
       IN IF y >= 0 THEN (IF x >= 0 THEN base ELSE 0 - base)
          ELSE (IF x >= 0 THEN 1800 - base ELSE base - 1800)

\* Math.atan2(y, x) in tenths of a degree, in -1800 < . <= 1800
Atan2(y, x) ==
  IF x = 0 /\ y = 0 THEN 0
  ELSE LET base == IF Abs(y) <= Abs(x) THEN AtanRatio(Abs(y), Abs(x))
                   ELSE 900 - AtanRatio(Abs(x), Abs(y))
       IN IF x >= 0 THEN (IF y >= 0 THEN base ELSE 0 - base)
          ELSE (IF y >= 0 THEN 1800 - base ELSE base - 1800)

RECURSIVE SumOver(_, _, _)
\* f[from] + ... + f[to]
SumOver(f, from, to) ==
  IF from > to THEN 0 ELSE f[from] + SumOver(f, from + 1, to)

\* the sums of the transform for bin k (before the scaling by 2 / N)
BinReal(samples, k) ==
  SumOver([n \in 0..(Len(samples) - 1) |-> samples[n + 1] * Cos4(k * n)],
          0, Len(samples) - 1)

BinImag(samples, k) ==
  0 - SumOver([n \in 0..(Len(samples) - 1) |-> samples[n + 1] * Sin4(k * n)],
              0, Len(samples) - 1)

\* The first pass of the analyzer: the magnitude of each bin, in tenths of
\* 1/FullScale after the scaling by 2 / N = 1 / 2, and its phase.
firstPass(samples, numHarmonics) ==
  [k \in 1..numHarmonics |->
     LET real == BinReal(samples, k)
         imag == BinImag(samples, k)
     IN [magnitude |-> Sqrt(25 * (real * real + imag * imag)),
         phase |-> Atan2(imag, real)]]

\* an analyzer that gives every harmonic a tuning of 5 cents
analyzeDetuned(bins, numHarmonics) ==
  [k \in 1..numHarmonics |-> Harmonic(k, MAX_AMPLITUDE, 0, 5, FALSE)]

\* a second pass that divides by the maximum unguarded: 0 / 0 is not a
\* number, written MAX_AMPLITUDE + 1 here
analyzeUnguarded(bins, numHarmonics) ==
  LET mags == {bins[k].magnitude : k \in 1..numHarmonics}
      maxMagnitude == CHOOSE m \in mags \cup {0} : \A x \in mags : x <= m
  IN [k \in 1..numHarmonics |->
        Harmonic(k,
                 IF maxMagnitude = 0 THEN MAX_AMPLITUDE + 1
                 ELSE (2 * bins[k].magnitude * MAX_AMPLITUDE + maxMagnitude)
                        \div (2 * maxMagnitude),
                 0, 0, FALSE)]

\* The second pass of the analyzer over the magnitude and phase the first
\* pass found in each bin (a phase is atan2's, in tenths of a degree).
computeHarmonicsFromWaveform(bins, numHarmonics) ==
  LET mags == {bins[k].magnitude : k \in 1..numHarmonics}
      maxMagnitude == CHOOSE m \in mags \cup {0} : \A x \in mags : x <= m
  IN [k \in 1..numHarmonics |->
        LET amplitude == IF maxMagnitude > 0
                         THEN (2 * bins[k].magnitude * MAX_AMPLITUDE + maxMagnitude)
                                \div (2 * maxMagnitude)
                         ELSE 0
            shifted == JsRem(bins[k].phase + 900, 3600)
            phaseDeg == IF shifted < 0 THEN shifted + 3600 ELSE shifted
        IN Harmonic(k, Min(MAX_AMPLITUDE, Max(0, amplitude)),
                    MathRound(phaseDeg), 0, FALSE)]

\* computeHarmonicsFromWaveform(samples, numHarmonics): both passes
analyze(samples, numHarmonics) ==
  computeHarmonicsFromWaveform(firstPass(samples, numHarmonics), numHarmonics)

\* Math.sin of e eighths of a turn, in thousandths
Sin8(e) == <<0, 707, 1000, 707, 0, -707, -1000, -707>>[(e % 8) + 1]

\* the largest absolute value of a buffer, and at least floor
PeakOf(samples, floor) ==
  LET mags == {Abs(samples[n]) : n \in 1..Len(samples)} \cup {floor}
  IN CHOOSE m \in mags : \A x \in mags : x <= m

\* a / b rounded to the nearest whole number, b > 0
DivRound(a, b) ==
  IF a >= 0 THEN (2 * a + b) \div (2 * b) ELSE 0 - ((2 * (0 - a) + b) \div (2 * b))

\* the sum of the unmuted harmonics at each sample, before normalisation,
\* in thousandths; for harmonics of tuning 0 (tuningMultiplier 1) whose
\* phase is a multiple of 45 degrees, and a numSamples that divides 8
RawWaveform(hs, numSamples, count) ==
  [n \in 1..numSamples |->
     SumOver([i \in 1..Min(count, Len(hs)) |->
                IF hs[i].mute THEN 0
                ELSE hs[i].amplitude
                       * Sin8((8 * hs[i].id * (n - 1)) \div numSamples
                              + hs[i].phase \div 45)],
             1, Min(count, Len(hs)))]

\* a synthesizer that always divides by the peak
generateNormalized(hs, numSamples, count) ==
  LET raw == RawWaveform(hs, numSamples, count)
      maxAbs == PeakOf(raw, 1)
  IN [n \in 1..numSamples |-> DivRound(1000 * raw[n], maxAbs)]

\* samples in thousandths; maxAbs = Math.max(...|samples|, 0.001)
generateWaveformFromHarmonics(hs, numSamples, count) ==
  LET raw == RawWaveform(hs, numSamples, count)
      maxAbs == PeakOf(raw, 1)
  IN IF maxAbs > 1000
     THEN [n \in 1..numSamples |-> DivRound(1000 * raw[n], maxAbs)]
     ELSE raw

\* ---------------------------------------------------- WaveformCanvas
\* A buffer smoothWaveform returns is kept exactly, as whole numerators over
\* one denominator: sample n is samples[n] / den (in 1/FullScale).
Exact(points) == [den |-> 1, samples |-> points]

\* Math.floor(1 + (strength / 100) * Math.max(5, points.length * 0.1))
windowSize(len, strength) == 1 + (strength * Max(50, len)) \div 1000

\* the sum of the 2 * w + 1 points around point i, indices wrapping
\* (i counts from 1 here, the code's index is i - 1)
WindowSum(points, i, w) ==
  SumOver([j \in 0..(2 * w) |->
             points[((i - 1 + j - w + Len(points)) % Len(points)) + 1]],
          0, 2 * w)

\* the moving average: sum / (2 * windowSize + 1)
Averaged(points, w) ==
  [den |-> 2 * w + 1,
   samples |-> [i \in 1..Len(points) |-> WindowSum(points, i, w)]]

\* Math.max(-1, Math.min(1, points[i] + highFreq * sharpAmount)), with
\* sharpAmount = 1 + (strength / 100) * 3 = (100 + 3 * strength) / 100
Sharpened(points, w, strength) ==
  LET den == 100 * (2 * w + 1)
  IN [den |-> den,
      samples |->
        [i \in 1..Len(points) |->
           LET highFreq == (2 * w + 1) * points[i] - WindowSum(points, i, w)
           IN Clamp(den * points[i] + highFreq * (100 + 3 * strength),
                    0 - den * FullScale, den * FullScale)]]

\* a smoothing without the early return for a window of 1
smoothAlways(points, strength, isSharpMode) ==
  IF strength <= 0 \/ Len(points) = 0 THEN Exact(points)
  ELSE IF isSharpMode
       THEN Sharpened(points, windowSize(Len(points), strength), strength)
       ELSE Averaged(points, windowSize(Len(points), strength))

\* smoothWaveform(points, strength), with the mode of the canvas; for
\* buffers at least as long as the widest window, so that every index of
\* the window is one of the buffer
smoothWaveform(points, strength, isSharpMode) ==
  IF strength <= 0 \/ Len(points) = 0 THEN Exact(points)
  ELSE LET w == windowSize(Len(points), strength)
       IN IF w <= 1 THEN Exact(points)
          ELSE IF isSharpMode THEN Sharpened(points, w, strength)
          ELSE Averaged(points, w)

\* useHistory's default for the number of spectra undo can go back to
MAX_HISTORY == 50

\* past = [...past, value].slice(-maxHistory)
pushPast(stack, value, maxHistory) ==
  LET all == Append(stack, value)
  IN IF Len(all) > maxHistory
     THEN SubSeq(all, Len(all) - maxHistory + 1, Len(all))
     ELSE all

\* setState(value) of useHistory, recording history: the spectrum replaced
\* goes on the undo stack and the redo stack is emptied
setHarmonicsState(newValue) ==
  /\ harmonics' = newValue
  /\ past' = pushPast(past, harmonics, MAX_HISTORY)
  /\ future' = <<>>

\* useEffect(() => voicePool.updateHarmonics(effectiveHarmonics)): runs after
\* every change of the spectrum, the count or the detuning switch
SyncVoices ==
  UpdateVoices(effectiveHarmonics(harmonics', harmonicCount', detuningAllowed'))

\* a value typed into a slider of row id and committed (whole numbers)
Commit(id, field, typed) ==
  /\ id \in 1..Min(harmonicCount, Len(harmonics))
  /\ field = "tuning" => detuningAllowed
  /\ setHarmonicsState(setHarmonic(harmonics, id, field,
                         Clamp(typed, FieldMin(field), FieldMax(field))))
  /\ last' = Call("setHarmonic", 0, 0, id, field)
  /\ UNCHANGED <<harmonicCount, detuningAllowed, isDrawMode, userPresets>>
  /\ SyncVoices

\* the mute checkbox of row id
ToggleMute(id) ==
  /\ id \in 1..Min(harmonicCount, Len(harmonics))
  /\ setHarmonicsState(setHarmonic(harmonics, id, "mute", ~harmonics[id].mute))
  /\ last' = Call("setHarmonic", 0, 0, id, "mute")
  /\ UNCHANGED <<harmonicCount, detuningAllowed, isDrawMode, userPresets>>
  /\ SyncVoices

\* (the call is recorded with the count before it and the count after it)
setHarmonicCount(count) ==
  /\ harmonicCount' = Max(1, Min(32, count))
  /\ last' = Call("setHarmonicCount", harmonicCount, 0, harmonicCount', "none")
  /\ UNCHANGED <<harmonics, detuningAllowed, isDrawMode, userPresets,
               past, future>>
  /\ SyncVoices

setDetuningAllowed(allowed) ==
  /\ detuningAllowed' = allowed
  /\ last' = Call("setDetuningAllowed", 0, 0, 0, "none")
  /\ UNCHANGED <<harmonics, harmonicCount, isDrawMode, userPresets,
               past, future>>
  /\ SyncVoices

setDrawMode(enabled) ==
  /\ isDrawMode' = enabled
  /\ last' = Call("setDrawMode", 0, 0, 0, "none")
  /\ UNCHANGED <<harmonics, harmonicCount, detuningAllowed, userPresets,
               past, future>>
  /\ UNCHANGED <<voice, heap, latest>>

\* index of the first preset with the name, 0 if none
FindPreset(presets, name) ==
  IF \E k \in 1..Len(presets) : presets[k].name = name
     THEN CHOOSE k \in 1..Len(presets) :
            /\ presets[k].name = name
            /\ \A j \in 1..(k - 1) : presets[j].name # name
     ELSE 0

\* A file with one preset is read: its partials go through loadHarmonics
\* and the preset replaces the stored one of its name, or is added.
importPresets(name, partials) ==
  /\ LET p == [name |-> name,
               harmonics |-> loadHarmonics(partials, MAX_HARMONICS)]
         idx == FindPreset(userPresets, name)
     IN userPresets' = IF idx > 0 THEN [userPresets EXCEPT ![idx] = p]
                       ELSE Append(userPresets, p)
  /\ last' = Call("importPresets", 0, 0, 0, "none")
  /\ UNCHANGED <<harmonics, harmonicCount, detuningAllowed, isDrawMode,
               past, future>>
  /\ UNCHANGED <<voice, heap, latest>>

\* onPresetSelect: setHarmonics(h); setDrawMode(false)
PresetSelect(h) ==
  /\ setHarmonicsState(h)
  /\ isDrawMode' = FALSE
  /\ last' = Call("setHarmonics", 0, 0, 0, "preset")
  /\ UNCHANGED <<harmonicCount, detuningAllowed, userPresets>>
  /\ SyncVoices

\* handleMouseUp: the stroke is analysed and the result replaces the spectrum
DrawComplete(bins) ==
  /\ isDrawMode
  /\ setHarmonicsState(
       loadHarmonics(
         AsPartials(computeHarmonicsFromWaveform(bins, harmonicCount)),
         harmonicCount))
  /\ last' = Call("setHarmonics", 0, 0, 0, "draw")
  /\ UNCHANGED <<harmonicCount, detuningAllowed, isDrawMode, userPresets>>
  /\ SyncVoices

\* handleSmoothingCommit: the smoothing slider is released; the raw points,
\* filled from the spectrum when the canvas was sized, are smoothed and
\* analysed and the result replaces the spectrum, in draw mode or not
SmoothingCommit(bins) ==
  /\ setHarmonicsState(
       loadHarmonics(
         AsPartials(computeHarmonicsFromWaveform(bins, harmonicCount)),
         harmonicCount))
  /\ last' = Call("setHarmonics", 0, 0, 0, "smooth")
  /\ UNCHANGED <<harmonicCount, detuningAllowed, isDrawMode, userPresets>>
  /\ SyncVoices

\* undo: nothing without an earlier spectrum; else the current one goes to
\* the front of the redo stack and the latest of the undo stack comes back
undo ==
  /\ Len(past) > 0
  /\ harmonics' = past[Len(past)]
  /\ past' = SubSeq(past, 1, Len(past) - 1)
  /\ future' = <<harmonics>> \o future
  /\ last' = Call("undo", 0, 0, 0, "none")
  /\ UNCHANGED <<harmonicCount, detuningAllowed, isDrawMode, userPresets>>
  /\ SyncVoices

\* redo: nothing without an undone spectrum; else the current one is
\* appended to the undo stack and the first of the redo stack comes back
redo ==
  /\ Len(future) > 0
  /\ harmonics' = future[1]
  /\ future' = Tail(future)
  /\ past' = Append(past, harmonics)
  /\ last' = Call("redo", 0, 0, 0, "none")
  /\ UNCHANGED <<harmonicCount, detuningAllowed, isDrawMode, userPresets>>
  /\ SyncVoices

\* ------------------------------------------------ inputs of the control layer
\* the row edited, and a partial of a file: the fundamental; a partial may
\* also name a harmonic past the last one
EditIds == {1}
PartialIds == {1, MAX_HARMONICS + 1}

\* whole numbers typed into a slider: below, inside and above the ranges
TypedValues == {-150, 500}

\* counts asked for: below and above the range
CountValues == {0, 40}

\* partials of a file, numbers in tenths: amplitude 127.4 with phase 360;
\* amplitude 500 with phase -90 and tuning 150; a muted one; one of
\* amplitude 0
RawPartials ==
  { Partial(i, 1274, 3600, 0, FALSE) : i \in PartialIds }
  \cup { Partial(1, 5000, -900, 1500, FALSE),
         Partial(1, 640, 0, 0, TRUE),
         Partial(1, 0, 900, 0, FALSE) }

RECURSIVE SeqsUpTo(_, _)
SeqsUpTo(S, n) ==
  IF n = 0 THEN {<<>>}
  ELSE SeqsUpTo(S, n - 1)
       \cup {Append(s, x) : s \in {q \in SeqsUpTo(S, n - 1) : Len(q) = n - 1},
                             x \in S}

PresetNames == {"imported"}

\* what the first pass of the analyzer finds: bin 1 varies, bin 2 is a sine
\* of magnitude 2, the other bins are empty
DrawBins ==
  { [k \in 1..MAX_HARMONICS |->
       IF k = 1 THEN [magnitude |-> m, phase |-> p]
       ELSE IF k = 2 THEN [magnitude |-> 2, phase |-> -900]
       ELSE [magnitude |-> 0, phase |-> 0]] :
      m \in {1, 4}, p \in {-904, 1800} }

\* the presets the panel lists
ListedPresets ==
  {BUILT_IN_PRESETS[k] : k \in 1..Len(BUILT_IN_PRESETS)}
  \cup {userPresets[k].harmonics : k \in 1..Len(userPresets)}

\* Runs of at most MaxEdits calls of the control layer.
NextControl ==
  /\ extra < MaxEdits
  /\ extra' = extra + 1
  /\ \/ \E id \in EditIds, field \in {"amplitude", "phase", "tuning"},
           typed \in TypedValues : Commit(id, field, typed)
     \/ \E id \in EditIds : ToggleMute(id)
     \/ \E count \in CountValues : setHarmonicCount(count)
     \/ \E allowed \in BOOLEAN : setDetuningAllowed(allowed)
     \/ \E enabled \in BOOLEAN : setDrawMode(enabled)
     \/ \E name \in PresetNames, partials \in SeqsUpTo(RawPartials, MaxPartials) :
          importPresets(name, partials)
     \/ \E h \in ListedPresets : PresetSelect(h)
     \/ \E bins \in DrawBins : DrawComplete(bins)
     \/ \E bins \in DrawBins : SmoothingCommit(bins)
     \/ undo
     \/ redo
  /\ UNCHANGED <<pool, ctxTime, perfNow, pressed, lib, ui>>

\* the engine mounted: the pool holds the initial effective spectrum
InitControl ==
  /\ InitPool
  /\ InitEngine
  /\ NoLibraryCall
  /\ InitUi
  /\ LET s == effectiveHarmonics(getDefaultHarmonics, 16, TRUE)
     IN /\ voice = [i \in VoiceIds |-> updateHarmonics(NewVoice, 1, s)]
        /\ heap = [a \in 0..MaxArr |-> IF a = 1 THEN s ELSE <<>>]
        /\ latest = s

SpecControl == InitControl /\ [][NextControl]_vars

\* ------------------------------------------- one AdditiveVoice, by itself
\* The methods of the voice of slot i called directly, as any holder of the
\* object can call them.
VoiceStart(i, f) ==
  /\ voice' = [j \in VoiceIds |->
                 IF j = i THEN start(Fresh(voice[j]), Stored(voice[j]), f, ctxTime)
                 ELSE Fresh(voice[j])]
  /\ last' = Call("start", 0, f, i,
                  IF voice[i].oscillatorsCreated THEN "reuse" ELSE "build")
  /\ UNCHANGED <<pool, heap, ctxTime, perfNow, pressed, latest>>

VoiceStop(i) ==
  /\ voice' = [j \in VoiceIds |->
                 IF j = i THEN stop(Fresh(voice[j]), ctxTime)
                 ELSE Fresh(voice[j])]
  /\ last' = Call("stop", 0, 0, i,
                  IF voice[i].isPlaying THEN "playing" ELSE "idle")
  /\ UNCHANGED <<pool, heap, ctxTime, perfNow, pressed, latest>>

VoiceSetFrequency(i, f) ==
  /\ voice' = [j \in VoiceIds |->
                 IF j = i THEN setFrequency(Fresh(voice[j]), Stored(voice[j]), f)
                 ELSE Fresh(voice[j])]
  /\ last' = Call("setFrequency", 0, f, i,
                  IF voice[i].isPlaying THEN "playing" ELSE "idle")
  /\ UNCHANGED <<pool, heap, ctxTime, perfNow, pressed, latest>>

VoiceUpdateHarmonics(i, s) ==
  /\ LET a == NewArray({i})
         vs == [j \in VoiceIds |->
                  IF j = i THEN updateHarmonics(Fresh(voice[j]), a, s)
                  ELSE Fresh(voice[j])]
     IN /\ voice' = vs
        /\ heap' = Collect([heap EXCEPT ![a] = s], vs)
        /\ latest' = s
  /\ last' = Call("updateHarmonics", 0, 0, i,
                  IF voice[i].isPlaying THEN "playing" ELSE "idle")
  /\ UNCHANGED <<pool, ctxTime, perfNow, pressed>>

VoiceDispose(i) ==
  /\ voice' = [j \in VoiceIds |->
                 IF j = i THEN dispose(Fresh(voice[j])) ELSE Fresh(voice[j])]
  /\ last' = Call("dispose", 0, 0, i, "none")
  /\ UNCHANGED <<pool, heap, ctxTime, perfNow, pressed, latest>>

\* Spectra handed to a single voice: MaxHarm harmonics, plain but for the
\* last one, which is aligned, aligned with another amplitude and phase,
\* aligned and muted, detuned, detuned otherwise, or detuned and muted;
\* and the plain spectrum that is one harmonic shorter.
Plain(i) == Harmonic(i, 127, 0, 0, FALSE)

LastKinds(i) ==
  { Plain(i),                        Harmonic(i, 64, 90, 0, FALSE),
    Harmonic(i, 64, 90, 0, TRUE),    Harmonic(i, 127, 0, 15, FALSE),
    Harmonic(i, 64, 90, -20, FALSE), Harmonic(i, 127, 0, 15, TRUE) }

VoiceSpectra ==
  { [i \in 1..MaxHarm |-> IF i = MaxHarm THEN h ELSE Plain(i)] :
      h \in LastKinds(MaxHarm) }
  \cup { [i \in 1..(MaxHarm - 1) |-> Plain(i)] }

DirectVoice == 1

NextVoice ==
  /\ \/ \E f \in Freqs : VoiceStart(DirectVoice, f)
     \/ VoiceStop(DirectVoice)
     \/ \E f \in Freqs : VoiceSetFrequency(DirectVoice, f)
     \/ \E s \in VoiceSpectra : VoiceUpdateHarmonics(DirectVoice, s)
     \/ VoiceDispose(DirectVoice)
     \/ AdvanceRender
  /\ UNCHANGED <<extra, ctl, lib, ui>>

SpecVoice == Init /\ [][NextVoice]_vars

\* ------------------------------------- the library functions, by themselves
\* partials of a sparse list, numbers in tenths: a plain one; amplitude 127.4
\* with phase 360; amplitude 127 with phase 360; phase 90 with tuning -100;
\* a muted one with phase 90; one of amplitude 0; amplitude 0.4; phase 359.6
\* with tuning 0.4; phase -90; one for harmonic 3
SparsePartials ==
  { Partial(1, 640, 0, 0, FALSE),
    Partial(1, 1274, 3600, 0, FALSE),
    Partial(1, 1270, 3600, 0, FALSE),
    Partial(2, 640, 900, -1000, FALSE),
    Partial(2, 640, 900, 0, TRUE),
    Partial(1, 0, 900, 0, FALSE),
    Partial(2, 4, 0, 0, FALSE),
    Partial(1, 640, 3596, 4, FALSE),
    Partial(2, 320, -900, 0, FALSE),
    Partial(3, 1270, 0, 1000, FALSE) }

SparseCounts == {1, 2}

SparseArgs ==
  { [kind |-> "sparse", partials |-> ps, count |-> c] :
      ps \in SeqsUpTo(SparsePartials, MaxSparse), c \in SparseCounts }

\* a call of a library function returns: nothing else changes
LibCall(op, value) ==
  /\ result' = value
  /\ last' = Call(op, 0, 0, 0, "none")
  /\ UNCHANGED <<voice, pool, heap, ctxTime, perfNow, pressed, extra, latest,
                 ctl, args, ui>>

CallLoad ==
  /\ args.kind = "sparse"
  /\ LibCall("loadHarmonics", loadHarmonics(args.partials, args.count))

CallCompress ==
  /\ args.kind = "sparse"
  /\ LibCall("compressHarmonics", compressHarmonics(args.partials))

\* compressHarmonics(loadHarmonics(partials, count))
CallCompressLoaded ==
  /\ last.op = "loadHarmonics"
  /\ LibCall("compressLoaded", compressHarmonics(AsPartials(result)))

\* samples of a buffer: -1, just below 0, 0, just above 0, 1
SampleValues == {0 - FullScale, -1, 0, 1, FullScale}

\* the buffers whose bins all have a tabulated phase
Buffers ==
  { b \in [1..NumSamples -> SampleValues] :
      \A k \in 1..MaxBins :
        LET x == Abs(BinReal(b, k))
            y == Abs(BinImag(b, k))
        IN Tabulated(Min(x, y), Max(x, y)) }

BufferArgs ==
  { [kind |-> "buffer", samples |-> b, count |-> c] :
      b \in Buffers, c \in 1..MaxBins }

CallAnalyze ==
  /\ args.kind = "buffer"
  /\ LibCall("computeHarmonicsFromWaveform", analyze(args.samples, args.count))

\* the harmonics of a spectrum given to the synthesizer: amplitude 0, 1 or
\* 127, phase 0, 45 or 270, muted or not, tuning 0
SynthSpectra ==
  SeqsUpTo({ [amplitude |-> a, phase |-> ph, mute |-> m] :
               a \in {0, 1, MAX_AMPLITUDE}, ph \in {0, 45, 270},
               m \in BOOLEAN }, MaxSynth)

SynthArgs ==
  { [kind |-> "spectrum",
     harmonics |-> [i \in 1..Len(hs) |->
                      Harmonic(i, hs[i].amplitude, hs[i].phase, 0, hs[i].mute)],
     count |-> c] :
      hs \in SynthSpectra, c \in 1..MaxSynth }

CallGenerate ==
  /\ args.kind = "spectrum"
  /\ LibCall("generateWaveformFromHarmonics",
             generateWaveformFromHarmonics(args.harmonics, NumSamples,
                                           args.count))

\* the buffer the synthesizer returned (thousandths) as the analyzer's
\* input (1/FullScale)
AsBuffer(samples) ==
  [n \in 1..Len(samples) |-> DivRound(samples[n] * FullScale, 1000)]

\* computeHarmonicsFromWaveform(generateWaveformFromHarmonics(hs, N, h), h),
\* for the generated buffers whose bins have a tabulated phase
CallAnalyzeGenerated ==
  /\ last.op = "generateWaveformFromHarmonics"
  /\ \A k \in 1..args.count :
       LET x == Abs(BinReal(AsBuffer(result), k))
           y == Abs(BinImag(AsBuffer(result), k))
       IN Tabulated(Min(x, y), Max(x, y))
  /\ LibCall("analyzeGenerated", analyze(AsBuffer(result), args.count))

\* the raw points of a canvas PointCount pixels wide, each 0 or 1, and the
\* positions of the smoothing slider: 0, 10 (window 1), 60 (window 4), 80
\* (window 5) and 100 (window 6)
PointCount == 9
Strengths == {0, 10, 60, 80, 100}

PointArgs ==
  { [kind |-> "points", points |-> b, strength |-> st, sharp |-> m] :
      b \in [1..PointCount -> {0, FullScale}], st \in Strengths,
      m \in BOOLEAN }

CallSmooth ==
  /\ args.kind = "points"
  /\ LibCall("smoothWaveform",
             smoothWaveform(args.points, args.strength, args.sharp))

LibArgs == SparseArgs \cup BufferArgs \cup SynthArgs \cup PointArgs

InitLib ==
  /\ InitPool
  /\ InitEngine
  /\ InitUi
  /\ voice = [i \in VoiceIds |-> NewVoice]
  /\ heap = [a \in 0..MaxArr |-> <<>>]
  /\ latest = <<>>
  /\ args \in LibArgs
  /\ result = <<>>

NextLib ==
  \/ CallLoad
  \/ CallCompress
  \/ CallCompressLoaded
  \/ CallAnalyze
  \/ CallGenerate
  \/ CallAnalyzeGenerated
  \/ CallSmooth

SpecLib == InitLib /\ [][NextLib]_vars

\* ------------------------------------------------------------ useHistory
\* setStateInternal(updater): React keeps the updaters it is handed in a
\* queue and runs them, in order, when it renders next.  When nothing is
\* queued it may run an updater at once, inside the call, and keep its
\* result for the render (ran: the updater has run already).
Updater(kind, value, ran) == [kind |-> kind, value |-> value, ran |-> ran]

\* what the updater of a call does to the store when it runs; current is
\* the state it is given
RunUpdater(h, u, current) ==
  IF u.kind = "set"
     THEN [h EXCEPT !.past = pushPast(h.past, current, MAX_HISTORY),
                    !.future = <<>>]
  ELSE IF u.kind = "undo"
     THEN [h EXCEPT !.future = <<current>> \o h.future]
     ELSE [h EXCEPT !.past = Append(h.past, current)]

\* React is handed an updater of the hook's state
setStateInternal(h, kind, value, eager) ==
  IF eager /\ h.queue = <<>>
     THEN [RunUpdater(h, Updater(kind, value, TRUE), h.state)
             EXCEPT !.queue = <<Updater(kind, value, TRUE)>>]
     ELSE [h EXCEPT !.queue = Append(h.queue, Updater(kind, value, FALSE))]

\* setState(value), recording history
setState(h, value, eager) == setStateInternal(h, "set", value, eager)

\* undo(): the top of the undo stack is taken off at once
historyUndo(h, eager) ==
  IF Len(h.past) = 0 THEN h
  ELSE setStateInternal([h EXCEPT !.past = SubSeq(h.past, 1, Len(h.past) - 1)],
                        "undo", h.past[Len(h.past)], eager)

\* redo(): the first of the redo stack is taken off at once
historyRedo(h, eager) ==
  IF Len(h.future) = 0 THEN h
  ELSE setStateInternal([h EXCEPT !.future = Tail(h.future)],
                        "redo", h.future[1], eager)

\* a render runs the queued updaters in order
RECURSIVE RunQueue(_, _)
RunQueue(h, queue) ==
  IF queue = <<>> THEN h
  ELSE LET u == Head(queue)
           r == IF u.ran THEN h ELSE RunUpdater(h, u, h.state)
       IN RunQueue([r EXCEPT !.state = u.value], Tail(queue))

render(h) == [RunQueue(h, h.queue) EXCEPT !.queue = <<>>]

HistoryValues == 1..MaxValues

HistoryCall(name, value, h) ==
  /\ Len(hist.calls) < MaxCalls
  /\ hist' = [h EXCEPT !.calls = Append(hist.calls, [op |-> name, value |-> value])]
  /\ UNCHANGED <<voice, pool, heap, ctxTime, perfNow, last, pressed, extra,
                 latest, ctl, lib, kbd>>

CallSetState(value, eager) ==
  HistoryCall("setState", value, setState(hist, value, eager))

CallUndo(eager) == HistoryCall("undo", 0, historyUndo(hist, eager))

CallRedo(eager) == HistoryCall("redo", 0, historyRedo(hist, eager))

Render ==
  /\ hist.queue # <<>>
  /\ hist' = render(hist)
  /\ UNCHANGED <<voice, pool, heap, ctxTime, perfNow, last, pressed, extra,
                 latest, ctl, lib, kbd>>

NextHistory ==
  \/ \E value \in HistoryValues, eager \in BOOLEAN : CallSetState(value, eager)
  \/ \E eager \in BOOLEAN : CallUndo(eager)
  \/ \E eager \in BOOLEAN : CallRedo(eager)
  \/ Render

SpecHistory == Init /\ [][NextHistory]_vars

\* ------------------------------------------------------- useKeyboardInput
\* two of the mapped keys (KEY_TO_MIDI) and a key that is not mapped
KEY_TO_MIDI == [key \in {"a", "s"} |-> IF key = "a" THEN 60 ELSE 62]

Keys == {"a", "s", "z"}

MIN_VISUAL_HOLD_MS == 60

\* Set.has on a set kept in insertion order
Has(keys, key) == \E i \in 1..Len(keys) : keys[i] = key

\* Set.delete / Map.delete
Without(keys, key) == SelectSeq(keys, LAMBDA x : x # key)

Delete(map, key) == [x \in DOMAIN map \ {key} |-> map[x]]

\* Map.set
Put(map, key, value) ==
  [x \in DOMAIN map \cup {key} |-> IF x = key THEN value ELSE map[x]]

\* a call of onNoteOn(midiNote, frequency) or onNoteOff(midiNote); the
\* frequency is a function of the note
Emit(callback, midiNote) == [callback |-> callback, midiNote |-> midiNote]

\* a keydown handler that does not look at the keys held
handleKeyDownRepeat(k, key, isTextInput) ==
  IF isTextInput \/ key \notin DOMAIN KEY_TO_MIDI THEN k
  ELSE [k EXCEPT !.pendingReleases = Delete(@, key),
                 !.physicalKeys = Append(Without(@, key), key),
                 !.visualKeys = @ \cup {key},
                 !.keyPressTime = Put(@, key, k.now),
                 !.activeKeys = k.visualKeys \cup {key},
                 !.currentNote = KEY_TO_MIDI[key],
                 !.emitted = Append(@, Emit("onNoteOn", KEY_TO_MIDI[key]))]

handleKeyDown(k, key, isTextInput) ==
  IF isTextInput \/ key \notin DOMAIN KEY_TO_MIDI \/ Has(k.physicalKeys, key)
     THEN k
  ELSE [k EXCEPT !.pendingReleases = Delete(@, key),
                 !.physicalKeys = Append(@, key),
                 !.visualKeys = @ \cup {key},
                 !.keyPressTime = Put(@, key, k.now),
                 !.activeKeys = k.visualKeys \cup {key},
                 !.currentNote = KEY_TO_MIDI[key],
                 !.emitted = Append(@, Emit("onNoteOn", KEY_TO_MIDI[key]))]

\* the visual release of a key; the note displayed becomes that of the key
\* pressed last among those held, or none (0)
releaseVisual(k, key) ==
  [k EXCEPT !.visualKeys = @ \ {key},
            !.keyPressTime = Delete(@, key),
            !.pendingReleases = Delete(@, key),
            !.activeKeys = k.visualKeys \ {key},
            !.currentNote =
               IF Len(k.physicalKeys) = 0 THEN 0
               ELSE KEY_TO_MIDI[k.physicalKeys[Len(k.physicalKeys)]]]

handleKeyUp(k, key) ==
  IF key \notin DOMAIN KEY_TO_MIDI \/ ~Has(k.physicalKeys, key) THEN k
  ELSE LET r == [k EXCEPT !.physicalKeys = Without(@, key),
                          !.emitted = Append(@, Emit("onNoteOff", KEY_TO_MIDI[key]))]
           pressTime == IF key \in DOMAIN k.keyPressTime
                        THEN k.keyPressTime[key] ELSE 0
           elapsed == k.now - pressTime
           remainingHoldTime == Max(0, MIN_VISUAL_HOLD_MS - elapsed)
       IN IF remainingHoldTime > 0
          THEN [r EXCEPT !.pendingReleases = Put(@, key, k.now + remainingHoldTime)]
          ELSE releaseVisual(r, key)

KeyEvent(name, key, k) ==
  /\ kbd.events < MaxKeyEvents
  /\ kbd' = [k EXCEPT !.events = kbd.events + 1]
  /\ last' = Call(name, 0, 0, 0, key)
  /\ UNCHANGED <<voice, pool, heap, ctxTime, perfNow, pressed, extra, latest,
                 ctl, lib, hist>>

KeyDown(key, isTextInput) ==
  KeyEvent("keydown", key, handleKeyDown(kbd, key, isTextInput))

KeyUp(key) == KeyEvent("keyup", key, handleKeyUp(kbd, key))

\* setTimeout(releaseVisual, remainingHoldTime) comes due
TimeoutFires(key) ==
  /\ key \in DOMAIN kbd.pendingReleases
  /\ kbd.now >= kbd.pendingReleases[key]
  /\ kbd' = releaseVisual(kbd, key)
  /\ last' = Call("timeout", 0, 0, 0, key)
  /\ UNCHANGED <<voice, pool, heap, ctxTime, perfNow, pressed, extra, latest,
                 ctl, lib, hist>>

\* performance.now() moves on
ClockTick ==
  /\ kbd.now < MaxTicks * TickMs
  /\ kbd' = [kbd EXCEPT !.now = @ + TickMs]
  /\ UNCHANGED <<voice, pool, heap, ctxTime, perfNow, last, pressed, extra,
                 latest, ctl, lib, hist>>

NextKeyboard ==
  \/ \E key \in Keys, isTextInput \in BOOLEAN : KeyDown(key, isTextInput)
  \/ \E key \in Keys : KeyUp(key)
  \/ \E key \in Keys : TimeoutFires(key)
  \/ ClockTick

SpecKeyboard == Init /\ [][NextKeyboard]_vars

\* ================================================================= claims
\* what the claims read off a state
Slots == 1..Len(pool)

Holders(n) == {k \in Slots : pool[k].midiNote = n}

VoiceOf(k) == voice[pool[k].voice]

\* two voice objects that differ at most in their per-call counters
SameVoice(v, w) == Fresh(v) = Fresh(w)

\* the value of the output level at time t, and whether a ramp is pending
GainLevel(events, t) ==
  LET applied == {k \in 1..Len(events) : events[k].time <= t}
      pending == {k \in 1..Len(events) :
                    events[k].time > t /\ events[k].type = "expRamp"}
  IN [value |-> IF applied = {} THEN 0
                ELSE events[CHOOSE k \in applied : \A j \in applied : j <= k].value,
      ramps |-> Cardinality(pending)]

Silent(v) == GainLevel(v.gainEvents, ctxTime) = [value |-> 0, ramps |-> 0]

\* a step of noteOn is the only step that moves performance.now()
NoteOnStep == perfNow' # perfNow

\* C1: a noteOn for a note no voice holds, with all 8 voices assigned, takes
\* a voice whose startTime is the smallest of the 8, stops it, assigns it the
\* note and starts it, and leaves the other 7 as they are; a noteOn that
\* finds an idle voice or a holder takes no note from a voice.  After 9
\* first presses and nothing else, the slot of the 1st key holds the 9th key
\* and no slot holds the 1st.
C1_StealsOldest ==
  /\ [][NoteOnStep /\ Holders(last'.note) = {} /\ Holders(NoNote) = {} =>
          \E k \in Slots :
             /\ \A j \in Slots : pool[k].startTime <= pool[j].startTime
             /\ last'.slot = k /\ last'.path = "steal"
             /\ pool'[k] = [voice |-> pool[k].voice, midiNote |-> last'.note,
                            startTime |-> perfNow']
             /\ voice'[pool[k].voice].isPlaying
             /\ voice'[pool[k].voice].gainEvents =
                  Retrigger(Mute(VoiceOf(k).gainEvents, ctxTime), ctxTime)
             /\ \A j \in Slots \ {k} :
                  pool'[j] = pool[j] /\ SameVoice(voice'[pool[j].voice], VoiceOf(j))]_vars
  /\ [][NoteOnStep /\ (Holders(last'.note) # {} \/ Holders(NoNote) # {}) =>
          \A j \in Slots : pool[j].midiNote \notin {NoNote, last'.note} =>
             pool'[j] = pool[j]]_vars
  /\ [](extra = 0 /\ pressed = 1 => Holders(1) = {1})
  /\ [](extra = 0 /\ pressed = POOL_SIZE + 1 =>
          Holders(POOL_SIZE + 1) = {1} /\ Holders(1) = {})

C1_Witness ==
  /\ last.op = "noteOn" /\ last.path = "steal" /\ last.slot = 2
  /\ pool[2].midiNote = POOL_SIZE + 1

\* C2: a noteOn for a note a voice holds restarts that voice: its slot keeps
\* the note, its base frequency becomes the new one, its startTime becomes
\* the current clock value, and no other slot or voice changes.
C2_RetriggerReuses ==
  [][NoteOnStep /\ Holders(last'.note) # {} =>
       \E k \in Holders(last'.note) :
          /\ last'.slot = k /\ last'.path = "retrigger"
          /\ pool'[k] = [pool[k] EXCEPT !.startTime = perfNow']
          /\ pool'[k].startTime > pool[k].startTime
          /\ voice'[pool[k].voice].baseFrequency = last'.freq
          /\ voice'[pool[k].voice].isPlaying
          /\ \A j \in Slots \ {k} :
               pool'[j] = pool[j] /\ SameVoice(voice'[pool[j].voice], VoiceOf(j))]_vars

C2_Witness ==
  /\ last.op = "noteOn" /\ last.path = "retrigger" /\ last.freq = Hz220
  /\ VoiceOf(last.slot).baseFrequency = Hz220
  /\ Cardinality(Holders(NoNote)) = POOL_SIZE - 1

\* C3: on a pool that is not disposed noteOn always finds a voice for the
\* note (the one holding it, else an idle one, else the oldest), and right
\* after the call exactly one voice holds the note, is Active and has the
\* frequency of the call.
C3_NeverRejects ==
  /\ pool # <<>> =>
       \A n \in Notes :
         FindNote(pool, n) = 0 => Allocate(pool).slot \in Slots
  /\ pool # <<>> /\ last.op = "noteOn" =>
       /\ Cardinality(Holders(last.note)) = 1
       /\ \A k \in Holders(last.note) :
            /\ VoiceOf(k).isPlaying
            /\ VoiceOf(k).baseFrequency = last.freq

C3_Witness ==
  /\ last.op = "noteOn" /\ last.path = "steal" /\ last.freq = Hz220
  /\ Holders(NoNote) = {}

\* a step of noteOff: the call recorded is a noteOff and no clock moved
NoteOffStep == last'.op = "noteOff" /\ ctxTime' = ctxTime

\* C4: noteOff for a note a voice holds stops that voice, silences it and
\* clears its slot; noteOff for a note no voice holds changes no slot and no
\* voice.
C4_NoteOff ==
  [][NoteOffStep =>
       IF Holders(last'.note) # {}
       THEN \E k \in Holders(last'.note) :
              /\ pool'[k] = [pool[k] EXCEPT !.midiNote = NoNote]
              /\ ~voice'[pool[k].voice].isPlaying
              /\ GainLevel(voice'[pool[k].voice].gainEvents, ctxTime) =
                   [value |-> 0, ramps |-> 0]
              /\ \A j \in Slots \ {k} :
                   pool'[j] = pool[j] /\ SameVoice(voice'[pool[j].voice], VoiceOf(j))
       ELSE /\ pool' = pool
            /\ \A i \in VoiceIds : SameVoice(voice'[i], voice[i])]_vars

C4_Witness ==
  /\ last.op = "noteOff" /\ last.path = "absent" /\ last.note = 1
  /\ pressed = POOL_SIZE + 1
  /\ pool[1].midiNote = POOL_SIZE + 1 /\ VoiceOf(1).isPlaying

\* the table and the satellites a spectrum requires of a voice
Aligned(h) == ~h.mute /\ h.tuning = 0
Detuned(h) == ~h.mute /\ h.tuning # 0

Required(v, s) ==
  /\ v.primaryOsc # NoNode
  /\ DOMAIN v.primaryOsc.wave.coefs = 1..Len(s)
  /\ \A k \in 1..Len(s) :
       v.primaryOsc.wave.coefs[k] = IF Aligned(s[k]) THEN Coef(s[k]) ELSE ZeroCoef
  /\ \A k \in 1..Len(s) :
       Cardinality({j \in 1..Len(v.detunedOscs) :
                      v.detunedOscs[j].harmonicIndex = k - 1}) =
         IF Detuned(s[k]) THEN 1 ELSE 0
  /\ \A j \in 1..Len(v.detunedOscs) :
       LET d == v.detunedOscs[j]
       IN /\ d.harmonicIndex + 1 \in 1..Len(s)
          /\ d.wave = [size |-> 2, coefs |-> <<Coef(s[d.harmonicIndex + 1])>>]
          /\ d.frequency = Frequency(v.baseFrequency, d.harmonicIndex + 1,
                                     s[d.harmonicIndex + 1].tuning)

\* C5: after updateHarmonics every voice of the pool holds the spectrum
\* passed, and a voice that noteOn has just started has the table and the
\* satellites the most recent spectrum requires.
C5_StartUsesLatest ==
  /\ \A k \in Slots : Stored(VoiceOf(k)) = latest
  /\ \A k \in Slots : VoiceOf(k).harmonicCount =
                        IF latest = <<>> /\ VoiceOf(k).harmonics = 0
                        THEN MAX_HARMONICS ELSE Len(latest)
  /\ last.op = "noteOn" =>
       /\ VoiceOf(last.slot).isPlaying
       /\ Required(VoiceOf(last.slot), latest)
       /\ VoiceOf(last.slot).primaryOsc.wave.size =
            VoiceOf(last.slot).harmonicCount + 1

\* an update that arrived while the voice was Idle, after it had played:
\* the start replaces 1 oscillator by 2
C5_Witness ==
  /\ last.op = "noteOn" /\ last.path = "idle"
  /\ VoiceOf(last.slot).stopped = 1 /\ VoiceOf(last.slot).created = 2

\* ------------------------------------------------ claims on a single voice
TheVoice == voice[DirectVoice]

\* a call of the voice's method op (the clock does not move during a call)
VoiceStep(op) == last'.op = op /\ ctxTime' = ctxTime

\* 0-based indices of the harmonics of s that need a satellite
NeedSatellite(s) == {k - 1 : k \in {j \in 1..Len(s) : Detuned(s[j])}}

\* the ramps pending on a voice's output level
PendingRamps(v) ==
  {v.gainEvents[k] : k \in {j \in 1..Len(v.gainEvents) :
      v.gainEvents[j].time > ctxTime /\ v.gainEvents[j].type = "expRamp"}}

\* C7: updateHarmonics(s) on an Active voice that has its oscillators: if
\* the harmonics of s that need a satellite are those that have one, no
\* oscillator is created or stopped and the same satellites carry the table
\* and frequency s requires; otherwise every oscillator the voice had is
\* stopped and the ones s requires are created.  Either way the voice has
\* exactly the satellites s requires and no other oscillator keeps running.
C7_InPlaceOrRebuild ==
  [][VoiceStep("updateHarmonics") /\ TheVoice.isPlaying
       /\ TheVoice.oscillatorsCreated =>
       LET v == TheVoice
           w == voice'[DirectVoice]
           s == latest'
       IN /\ Required(w, s)
          /\ w.running = LiveOscillators(w)
          /\ IF CurrentDetunedIndices(v) = NeedSatellite(s)
             THEN /\ w.created = 0 /\ w.stopped = 0
                  /\ CurrentDetunedIndices(w) = CurrentDetunedIndices(v)
             ELSE /\ w.stopped = LiveOscillators(v)
                  /\ w.created = LiveOscillators(w)]_vars

\* harmonic 2 had a satellite at +15 cents and the update set its tuning to
\* 0: both oscillators were stopped, one was created, harmonic 2 is in the
\* shared table
C7_Witness ==
  /\ last.op = "updateHarmonics" /\ last.path = "playing"
  /\ latest = <<Plain(1), Plain(2)>>
  /\ TheVoice.stopped = 2 /\ TheVoice.created = 1
  /\ TheVoice.detunedOscs = <<>>
  /\ TheVoice.primaryOsc.wave.coefs[2] = Coef(Plain(2))

\* C8: start leaves on the output level what was scheduled before the
\* current time followed by its own two changes, stop what was scheduled
\* before the current time followed by its own change; no other step adds a
\* ramp.  So at most one ramp is ever pending, it is the ramp to full level
\* that ends ATTACK_TIME after a start, and no ramp is pending on a voice
\* whose most recent start was followed by a stop.
C8_OneRampPending ==
  /\ [][VoiceStep("start") =>
          /\ voice'[DirectVoice].gainEvents =
               SelectSeq(TheVoice.gainEvents, LAMBDA e : e.time < ctxTime)
                 \o <<SetValue(0, ctxTime), ExpRamp(1, ctxTime + ATTACK_TIME)>>
          /\ PendingRamps(voice'[DirectVoice]) =
               {ExpRamp(1, ctxTime + ATTACK_TIME)}]_vars
  /\ [][VoiceStep("stop") /\ TheVoice.isPlaying =>
          /\ voice'[DirectVoice].gainEvents =
               SelectSeq(TheVoice.gainEvents, LAMBDA e : e.time < ctxTime)
                 \o <<SetValue(0, ctxTime)>>
          /\ PendingRamps(voice'[DirectVoice]) = {}]_vars
  /\ [][~VoiceStep("start") =>
          PendingRamps(voice'[DirectVoice]) \subseteq PendingRamps(TheVoice)]_vars
  /\ [](/\ GainLevel(TheVoice.gainEvents, ctxTime).ramps <= 1
        /\ Cardinality(PendingRamps(TheVoice)) <= 1
        /\ PendingRamps(TheVoice) # {} => TheVoice.isPlaying)

\* a start that found the ramp of an earlier start still pending, one clock
\* step into it
C8_Witness ==
  /\ last.op = "start" /\ last.path = "reuse" /\ ctxTime = 1
  /\ TheVoice.gainEvents =
       <<SetValue(0, 0), SetValue(0, 1), ExpRamp(1, 1 + ATTACK_TIME)>>

\* C9: stop and updateHarmonics on a voice that is Idle or disposed create,
\* stop and retune no oscillator, schedule nothing on the output level and
\* leave the activity state as it is; and once a voice is disposed it never
\* has an oscillator again.
C9_IdleDisposedNoOp ==
  /\ [][(VoiceStep("stop") \/ VoiceStep("updateHarmonics"))
          /\ (~TheVoice.isPlaying \/ ~TheVoice.connected) =>
          LET v == TheVoice
              w == voice'[DirectVoice]
          IN /\ w.created = 0 /\ w.stopped = 0
             /\ w.primaryOsc = v.primaryOsc /\ w.detunedOscs = v.detunedOscs
             /\ w.gainEvents = v.gainEvents
             /\ w.isPlaying = v.isPlaying]_vars
  /\ [][~TheVoice.connected =>
          /\ ~voice'[DirectVoice].connected
          /\ LiveOscillators(voice'[DirectVoice]) = 0]_vars

\* a write of the caller to an array it passed to updateHarmonics earlier
CallerWriteStep == last'.op = "write" /\ heap' # heap

\* C6: a write of the caller to the array it passed, or to a Harmonic in it,
\* changes the spectrum no voice of the pool has stored: every voice keeps
\* the spectrum of the most recent updateHarmonics call.
C6_OwnCopy ==
  /\ [][CallerWriteStep =>
          \A i \in VoiceIds : Stored(voice'[i]) = Stored(voice[i])]_vars
  /\ [](\A k \in Slots : Stored(VoiceOf(k)) = latest)

\* ----------------------------------------------- claims on the control layer
InRange(h) ==
  /\ h.amplitude >= 0 /\ h.amplitude <= 127
  /\ h.phase >= 0 /\ h.phase <= 360
  /\ h.tuning >= -100 /\ h.tuning <= 100

\* C10: every Harmonic of the spectrum being edited and of every stored
\* preset has its amplitude in 0..127, its phase in 0..360 and its tuning in
\* -100..100, whatever was typed, read from a file or drawn.
C10_Clamped ==
  /\ \A k \in 1..Len(harmonics) : InRange(harmonics[k])
  /\ \A j \in 1..Len(userPresets) :
       \A k \in 1..Len(userPresets[j].harmonics) :
         InRange(userPresets[j].harmonics[k])

\* the ids of a spectrum are its positions, counted from 1
IdsArePositions(hs) == \A k \in 1..Len(hs) : hs[k].id = k

\* C11: in the spectrum being edited, in every spectrum undo or redo can
\* bring back and in every preset the panel lists, the id of each Harmonic
\* is its position in the array plus one, hence unique.
C11_IdsArePositions ==
  /\ IdsArePositions(harmonics)
  /\ \A j \in 1..Len(past) : IdsArePositions(past[j])
  /\ \A j \in 1..Len(future) : IdsArePositions(future[j])
  /\ \A h \in ListedPresets : IdsArePositions(h)

\* the smoothing slider was released, the new spectrum undone and then
\* redone
C11_Witness ==
  /\ last.op = "redo"
  /\ past = <<getDefaultHarmonics>>
  /\ future = <<>>
  /\ Len(harmonics) = 16
  /\ harmonics[1].amplitude = 64
  /\ harmonics[2].amplitude = MAX_AMPLITUDE

\* a call of setHarmonicCount
ResizeStep == last'.op = "setHarmonicCount"

\* C12: a change of the count to c leaves exactly c Harmonics on display and
\* in the spectrum given to the voices; those shown before keep their data
\* and every slot that was not shown before holds the defaults.
C12_ResizeExact ==
  [][ResizeStep =>
       LET c == harmonicCount'
           before == visibleHarmonics(harmonics, harmonicCount)
           after == visibleHarmonics(harmonics', c)
       IN /\ c \in 1..MAX_HARMONICS
          /\ Len(after) = c
          /\ Len(latest') = c
          /\ \A k \in 1..Len(after) :
               after[k] = IF k <= Len(before) THEN before[k]
                          ELSE Harmonic(k, 0, 0, 0, FALSE)]_vars

\* the call before this one was a setHarmonicCount that lowered the count
AfterShrink == last.op = "setHarmonicCount" /\ last.slot < last.note

\* C13: the harmonics a shrink hides are dropped: when the count is lowered
\* to c and then raised, every slot with an id above c that is shown, and
\* given to the voices, holds the defaults.
C13_ShrinkDrops ==
  [][AfterShrink /\ ResizeStep /\ harmonicCount' > harmonicCount =>
       LET c == harmonicCount
           after == visibleHarmonics(harmonics', harmonicCount')
       IN /\ \A k \in (c + 1)..Len(after) :
               after[k] = Harmonic(k, 0, 0, 0, FALSE)
          /\ \A k \in (c + 1)..Len(latest') :
               latest'[k] = Harmonic(k, 0, 0, 0, FALSE)]_vars

\* --------------------------------------------- claims on the sparse lists
\* a call of the library function op has just returned
Returned(op) == args.kind # "none" /\ last.op = op

\* the Harmonic h with every field the partial p provides written over it
\* (numbers in tenths; a phase or tuning of 0 and a mute of false are what
\* a partial without the field stands for)
Overlaid(h, p) ==
  [id |-> p.id,
   amplitude |-> p.amplitude,
   phase |-> IF p.phase # 0 THEN p.phase ELSE h.phase,
   tuning |-> IF p.tuning # 0 THEN p.tuning ELSE h.tuning,
   mute |-> p.mute \/ h.mute]

RECURSIVE OverlaidAll(_, _, _)
OverlaidAll(hs, ps, k) ==
  IF k > Len(ps) THEN hs
  ELSE OverlaidAll(
         IF ps[k].id > Len(hs) THEN hs
         ELSE [hs EXCEPT ![ps[k].id] = Overlaid(@, ps[k])],
         ps, k + 1)

\* C14: loadHarmonics(partials, count) returns count Harmonics with the ids
\* 1..count, at the defaults except that each field a partial with id <=
\* count provides (amplitude, phase, tuning, mute) is written over them;
\* partials with a larger id are ignored.
C14_LoadOverlays ==
  Returned("loadHarmonics") =>
    /\ Len(result) = args.count
    /\ AsPartials(result) =
         OverlaidAll([i \in 1..args.count |-> Partial(i, 0, 0, 0, FALSE)],
                     args.partials, 1)

\* r is the integer nearest to the number of t tenths (the upper one of two)
Nearest(r, t) == 10 * r - t \in -4..5

\* the positions of the harmonics that are neither muted nor silent
KeptPositions(ps) == {k \in 1..Len(ps) : ~ps[k].mute /\ ps[k].amplitude # 0}

\* C15: compressHarmonics returns, in the order of its input, one entry for
\* each harmonic that is neither muted nor of amplitude 0 and none for the
\* others; the entry has the harmonic's id and its amplitude rounded to the
\* nearest integer; it has a phase exactly when the rounded phase does not
\* reduce to 0 modulo 360, and then that phase reduced; it has a tuning
\* exactly when the rounded tuning is not 0, and then that tuning.
C15_Compress ==
  Returned("compressHarmonics") =>
    LET ps == args.partials
        order == Ascending(KeptPositions(ps))
    IN /\ Len(result) = Len(order)
       /\ \A j \in 1..Len(order) :
            LET p == ps[order[j]]
                e == result[j]
            IN /\ e.id = p.id
               /\ Nearest(e.amplitude, p.amplitude)
               /\ \E r \in -MAX_PHASE..(2 * MAX_PHASE) :
                    /\ Nearest(r, p.phase)
                    /\ (e.phase - r) % MAX_PHASE = 0
                    /\ e.phase \in (1 - MAX_PHASE)..(MAX_PHASE - 1)
               /\ Nearest(e.tuning, p.tuning)

\* a list with a muted harmonic and one of amplitude 127.4 and phase 360
\* was compressed to the single entry of amplitude 127 and no phase
C15_Witness ==
  /\ Returned("compressHarmonics")
  /\ args.partials = <<Partial(2, 640, 900, 0, TRUE),
                       Partial(1, 1274, 3600, 0, FALSE)>>
  /\ result = <<[id |-> 1, amplitude |-> 127, phase |-> 0, tuning |-> 0]>>

\* whole numbers in the ranges of the sliders
Integral(p) ==
  /\ p.amplitude % 10 = 0 /\ p.amplitude \in 0..(10 * MAX_AMPLITUDE)
  /\ p.phase % 10 = 0 /\ p.phase \in 0..(10 * MAX_PHASE)
  /\ p.tuning % 10 = 0 /\ p.tuning \in (10 * MIN_TUNING)..(10 * MAX_TUNING)

\* the partials a round trip is to restore
Sounding(p) == p.amplitude > 0 /\ ~p.mute

\* the entry of a compressed list that stands for the partial p as it is
Entry(p) ==
  [id |-> p.id, amplitude |-> p.amplitude \div 10,
   phase |-> p.phase \div 10, tuning |-> p.tuning \div 10]

InResult(e) == \E j \in 1..Len(result) : result[j] = e

\* C16 as stated: compressHarmonics(loadHarmonics(partials, count)) has,
\* for every unmuted partial of positive amplitude of a list of whole
\* numbers in range, an entry with the partial's id, amplitude, phase and
\* tuning.
C16_RoundTripAsStated ==
  Returned("compressLoaded") /\ (\A k \in 1..Len(args.partials) :
                                   Integral(args.partials[k])) =>
    \A k \in 1..Len(args.partials) :
      Sounding(args.partials[k]) => InResult(Entry(args.partials[k]))

\* no other sounding partial of the list has the id of partial k
OnlyOfItsId(ps, k) ==
  \A j \in 1..Len(ps) : j # k /\ Sounding(ps[j]) => ps[j].id # ps[k].id

\* C16: the round trip restores every unmuted partial of positive amplitude
\* whose id is at most count and is the id of no other such partial of the
\* list: same id, amplitude and tuning, and the phase reduced modulo 360
\* (a phase of 360 comes back omitted, that is as 0).
C16_RoundTrip ==
  Returned("compressLoaded") /\ (\A k \in 1..Len(args.partials) :
                                   Integral(args.partials[k])) =>
    \A k \in 1..Len(args.partials) :
      LET p == args.partials[k]
      IN Sounding(p) /\ p.id <= args.count /\ OnlyOfItsId(args.partials, k) =>
           InResult([Entry(p) EXCEPT !.phase = @ % MAX_PHASE])

\* a list of two partials, one with phase 90 and tuning -100 and one with
\* phase 360, was loaded and compressed again
C16_Witness ==
  /\ Returned("compressLoaded")
  /\ args.partials = <<Partial(2, 640, 900, -1000, FALSE),
                       Partial(1, 1270, 3600, 0, FALSE)>>
  /\ args.count = 2
  /\ result = <<[id |-> 1, amplitude |-> 127, phase |-> 0, tuning |-> 0],
                [id |-> 2, amplitude |-> 64, phase |-> 90, tuning |-> -100]>>

\* ------------------------------------------------- claims on the analyzer
\* a stroke was completed or the smoothing slider released
AnalysisStep ==
  last'.op = "setHarmonics" /\ last'.path \in {"draw", "smooth"}

Undetuned(hs) == \A k \in 1..Len(hs) : hs[k].tuning = 0 /\ ~hs[k].mute

\* C17: a completed stroke or a smoothing commit replaces the spectrum by
\* one in which every Harmonic has tuning 0 and mute false, and the voices
\* are given such a spectrum.
C17_DrawResets ==
  [][AnalysisStep => Undetuned(harmonics') /\ Undetuned(latest')]_vars

\* the smoothing slider was released while harmonic 1 was detuned and muted
C17_Witness ==
  /\ last.op = "setHarmonics" /\ last.path = "smooth"
  /\ past # <<>>
  /\ past[Len(past)][1].mute
  /\ past[Len(past)][1].tuning # 0
  /\ harmonics[1].amplitude > 0

\* the buffer analysed holds zeros only
ZeroBuffer == \A n \in 1..Len(args.samples) : args.samples[n] = 0

\* C18: the analyzer run on a buffer of zeros returns a Harmonic of
\* amplitude 0 for each harmonic asked for: the division by the largest
\* magnitude is not made when that magnitude is 0.
C18_ZeroBuffer ==
  Returned("computeHarmonicsFromWaveform") /\ ZeroBuffer =>
    /\ Len(result) = args.count
    /\ \A k \in 1..Len(result) : result[k].amplitude = 0

\* three harmonics were asked of a buffer of zeros
C18_Witness ==
  /\ Returned("computeHarmonicsFromWaveform")
  /\ ZeroBuffer
  /\ args.count = MaxBins
  /\ Len(result) = MaxBins

\* C19: each Harmonic the analyzer returns has a whole amplitude in 0..127,
\* which is 127 for a harmonic of the largest magnitude when that is not 0,
\* and a phase in 0..359: never negative and never 360.
C19_AnalyzerRanges ==
  Returned("computeHarmonicsFromWaveform") =>
    LET bins == firstPass(args.samples, args.count)
    IN \A k \in 1..Len(result) :
         /\ result[k].amplitude \in 0..MAX_AMPLITUDE
         /\ (/\ bins[k].magnitude > 0
             /\ \A j \in 1..Len(bins) : bins[j].magnitude <= bins[k].magnitude)
              => result[k].amplitude = MAX_AMPLITUDE
         /\ result[k].phase \in 0..(MAX_PHASE - 1)

\* ---------------------------------------------- claims on the synthesizer
\* the sum of the harmonics the synthesizer was called with
RawOfArgs == RawWaveform(args.harmonics, NumSamples, args.count)

\* C20: no sample of the buffer generateWaveformFromHarmonics returns has a
\* magnitude above 1; when the peak of the sum is above 1 the buffer is the
\* sum divided by that peak, so that its peak is exactly 1; otherwise it is
\* the sum itself, never scaled up.
C20_PeakAtMostOne ==
  Returned("generateWaveformFromHarmonics") =>
    LET raw == RawOfArgs
        peak == PeakOf(raw, 0)
    IN /\ Len(result) = NumSamples
       /\ \A n \in 1..Len(result) : Abs(result[n]) <= 1000
       /\ peak > 1000 =>
            /\ PeakOf(result, 0) = 1000
            /\ \A n \in 1..Len(result) :
                 Abs(result[n] * peak - 1000 * raw[n]) <= peak
       /\ peak <= 1000 => result = raw

\* two harmonics of amplitude 127 were summed and the buffer scaled down
C20_Witness ==
  /\ Returned("generateWaveformFromHarmonics")
  /\ PeakOf(RawOfArgs, 0) > 127000
  /\ PeakOf(result, 0) = 1000
  /\ \E n \in 1..Len(result) : Abs(result[n]) \in 1..999

\* ------------------------------------- claims on synthesis then analysis
\* the spectrum synthesized holds harmonic id at amplitude 127, phase 0,
\* tuning 0, unmuted, and every other harmonic of it is muted
SingleHarmonic(id) ==
  /\ id \in 1..Len(args.harmonics)
  /\ args.harmonics[id] = Harmonic(id, MAX_AMPLITUDE, 0, 0, FALSE)
  /\ \A k \in 1..Len(args.harmonics) : k # id => args.harmonics[k].mute

\* harmonic id of the result has an amplitude within 1 of 127 and a phase
\* within 5 degrees of 0
Reproduced(id) ==
  /\ id \in 1..Len(result)
  /\ result[id].amplitude >= MAX_AMPLITUDE - 1
  /\ result[id].phase <= 5 \/ result[id].phase >= MAX_PHASE - 5

Variation(buf) ==
  SumOver([n \in 1..(Len(buf.samples) - 1) |->
             Abs(buf.samples[n + 1] - buf.samples[n])],
          1, Len(buf.samples) - 1)

\* C22: with sharpen mode off, the total variation of the buffer smoothed
\* at a strength is not larger than that of the same points smoothed at
\* any smaller strength.
C22_VariationShrinks ==
  Returned("smoothWaveform") /\ ~args.sharp =>
    \A s1 \in Strengths :
      s1 <= args.strength =>
        LET weaker == smoothWaveform(args.points, s1, FALSE)
        IN Variation(result) * weaker.den <= Variation(weaker) * result.den

\* C23: with sharpen mode off, strength 0, and every strength whose window
\* is at most 1, gives a buffer equal to the points, and the points are
\* left as they were.
C23_SmallWindowCopies ==
  [][/\ last'.op = "smoothWaveform" /\ args.kind = "points" /\ ~args.sharp
     /\ (args.strength = 0
           \/ windowSize(Len(args.points), args.strength) <= 1)
     => /\ result' = Exact(args.points)
        /\ args' = args]_vars

\* a buffer that is not constant was smoothed at strength 10, window 1
C23_Witness ==
  /\ Returned("smoothWaveform")
  /\ ~args.sharp
  /\ args.strength = 10
  /\ windowSize(Len(args.points), args.strength) = 1
  /\ Variation(Exact(args.points)) > 0
  /\ result = Exact(args.points)

\* ------------------------------------------- claims on what a voice renders
\* C24: an Active voice renders its stored spectrum: each unmuted harmonic
\* of tuning 0 has its coefficients at its index of the shared table and
\* no satellite; each unmuted harmonic of another tuning has exactly one
\* satellite, at baseFrequency * index * 2^(tuning/1200), and a zero
\* coefficient in the shared table; each muted harmonic has a zero
\* coefficient and no satellite.  (Slot 0 of a table is 0 by the way
\* tables are written down here.)
C24_RendersStored ==
  \A i \in VoiceIds :
    voice[i].isPlaying => Required(voice[i], Stored(voice[i]))

\* C25: start on a voice that was not disposed constructs oscillators only
\* when the voice has never had any; every other start (a retrigger, a
\* start after a stop, whatever updateHarmonics calls came in between)
\* creates and stops no oscillator and keeps the satellites it had.
C25_StartReuses ==
  [][VoiceStep("start") /\ TheVoice.connected =>
       LET v == TheVoice
           w == voice'[DirectVoice]
       IN IF v.oscillatorsCreated
          THEN /\ w.created = 0 /\ w.stopped = 0
               /\ CurrentDetunedIndices(w) = CurrentDetunedIndices(v)
          ELSE /\ w.created = LiveOscillators(w) /\ w.stopped = 0]_vars

\* C26: stop on an Active voice puts the output level at 0 at the current
\* render time and leaves no ramp pending, makes the voice Idle, and
\* creates, stops and disconnects no oscillator; stop on an Idle voice
\* changes nothing; and an Idle voice is silent in every state, so the
\* level stays 0 from a stop to the next start as the render clock runs.
C26_StopSilences ==
  /\ [][VoiceStep("stop") /\ TheVoice.isPlaying =>
          LET v == TheVoice
              w == voice'[DirectVoice]
          IN /\ ~w.isPlaying
             /\ w.gainEvents[Len(w.gainEvents)] = SetValue(0, ctxTime)
             /\ Silent(w) /\ PendingRamps(w) = {}
             /\ w.created = 0 /\ w.stopped = 0
             /\ w.primaryOsc = v.primaryOsc /\ w.detunedOscs = v.detunedOscs
             /\ w.running = v.running /\ w.connected = v.connected]_vars
  /\ [][VoiceStep("stop") /\ ~TheVoice.isPlaying =>
          voice'[DirectVoice] = Fresh(TheVoice)]_vars
  /\ [](~TheVoice.isPlaying => Silent(TheVoice))

\* a voice started at time 0 and stopped at time 1, before the end of its
\* attack ramp, is silent at time 3 with its oscillator running
C26_Witness ==
  /\ last.op = "stop" /\ last.path = "playing"
  /\ ctxTime = 3
  /\ ~TheVoice.isPlaying /\ Silent(TheVoice)
  /\ TheVoice.gainEvents = <<SetValue(0, 1)>>
  /\ TheVoice.running = 1 /\ TheVoice.connected

\* ------------------------------------------- claims on the pool's bookkeeping
\* C27: a pool that is not disposed has exactly POOL_SIZE slots, each with a
\* voice of its own; the voice of a slot is Active exactly when the slot is
\* assigned a note; and no two slots are assigned the same note.
C27_PoolBookkeeping ==
  pool # <<>> =>
    /\ Len(pool) = POOL_SIZE
    /\ \A j, k \in Slots : pool[j].voice = pool[k].voice => j = k
    /\ \A k \in Slots : (pool[k].midiNote # NoNote) <=> VoiceOf(k).isPlaying
    /\ \A j, k \in Slots :
         pool[j].midiNote # NoNote /\ pool[j].midiNote = pool[k].midiNote
           => j = k

\* the 9th key took the voice of the 1st: all 8 slots are assigned, all 8
\* voices are Active
C27_Witness ==
  /\ last.op = "noteOn" /\ last.path = "steal"
  /\ Holders(NoNote) = {}
  /\ Holders(1) = {}
  /\ Cardinality({pool[k].midiNote : k \in Slots}) = POOL_SIZE
  /\ \A k \in Slots : VoiceOf(k).isPlaying

\* ------------------------------------------------ claims on the oscillators
\* a voice no start was ever called on has nothing scheduled on its level
NeverStarted(v) == v.gainEvents = <<>>

\* C28: the oscillators of a voice that are started and not stopped are 0
\* before its first start and after its dispose, and otherwise 1 plus its
\* satellites, which are at most as many as its harmonics; a call that
\* creates oscillators first stops every oscillator the voice had; and
\* once the pool is disposed it holds no voice and no voice has a running
\* oscillator.
C28_OscillatorCount ==
  /\ [](\A i \in VoiceIds :
          LET v == voice[i]
          IN /\ v.running = IF NeverStarted(v) \/ ~v.connected THEN 0
                            ELSE 1 + Len(v.detunedOscs)
             /\ Len(v.detunedOscs) <= Len(Stored(v)))
  /\ [][ctxTime' = ctxTime =>
          \A i \in VoiceIds :
            voice'[i].created > 0 => voice'[i].stopped = voice[i].running]_vars
  /\ [](pool = <<>> => \A i \in VoiceIds : voice[i].running = 0)

\* ------------------------------------------------------ claims on the hooks
\* the history a sequence of calls gives when each call takes effect before
\* the next is made
Linear(h, c) ==
  IF c.op = "setState"
     THEN [state |-> c.value, past |-> Append(h.past, h.state), future |-> <<>>]
  ELSE IF c.op = "undo"
     THEN IF h.past = <<>> THEN h
          ELSE [state |-> h.past[Len(h.past)],
                past |-> SubSeq(h.past, 1, Len(h.past) - 1),
                future |-> <<h.state>> \o h.future]
     ELSE IF h.future = <<>> THEN h
          ELSE [state |-> h.future[1],
                past |-> Append(h.past, h.state),
                future |-> Tail(h.future)]

RECURSIVE Replay(_, _)
Replay(h, calls) ==
  IF calls = <<>> THEN h ELSE Replay(Linear(h, Head(calls)), Tail(calls))

Expected ==
  Replay([state |-> NewHistory.state, past |-> <<>>, future |-> <<>>],
         hist.calls)

\* C29: once every queued update is applied, the state is the one the calls
\* made so far give one after the other: an undo goes back to the value
\* before the most recent recorded change that is not undone, a redo
\* re-applies the change undone last, also when calls were made before the
\* update of the call before them was applied.
C29_UndoRedo ==
  hist.queue = <<>> => hist.state = Expected.state

\* a key event was delivered
KeyStep(name) == last'.op = name /\ kbd'.events = kbd.events + 1

\* the callbacks made for a note, in order
CallbacksOf(midiNote) ==
  SelectSeq(kbd.emitted, LAMBDA e : e.midiNote = midiNote)

\* C30: for each mapped key the callbacks alternate, onNoteOn first; a
\* keydown of a key that is held makes no callback, a keyup of a key that is
\* not held makes none, and a keyup of a held key makes its onNoteOff in the
\* same step, whatever visual release is pending or was cancelled.
C30_Alternate ==
  /\ [](\A key \in DOMAIN KEY_TO_MIDI :
          LET cs == CallbacksOf(KEY_TO_MIDI[key])
          IN /\ \A i \in 1..Len(cs) :
                  cs[i].callback = IF i % 2 = 1 THEN "onNoteOn" ELSE "onNoteOff"
             /\ Has(kbd.physicalKeys, key) <=> Len(cs) % 2 = 1)
  /\ [][KeyStep("keydown") /\ Has(kbd.physicalKeys, last'.path) =>
          kbd'.emitted = kbd.emitted]_vars
  /\ [][KeyStep("keyup") /\ ~Has(kbd.physicalKeys, last'.path) =>
          kbd'.emitted = kbd.emitted]_vars
  /\ [][KeyStep("keyup") /\ Has(kbd.physicalKeys, last'.path) =>
          kbd'.emitted =
            Append(kbd.emitted, Emit("onNoteOff", KEY_TO_MIDI[last'.path]))]_vars
  /\ [][~KeyStep("keydown") /\ ~KeyStep("keyup") =>
          kbd'.emitted = kbd.emitted]_vars

\* key a was pressed at 0 and released at once, pressed again at 30 ms
\* while its visual release was pending, and released again
C30_Witness ==
  /\ last = Call("keyup", 0, 0, 0, "a")
  /\ kbd.emitted = <<Emit("onNoteOn", 60), Emit("onNoteOff", 60),
                     Emit("onNoteOn", 60), Emit("onNoteOff", 60)>>
  /\ kbd.keyPressTime = Put(<<>>, "a", TickMs)
  /\ kbd.pendingReleases = Put(<<>>, "a", TickMs + MIN_VISUAL_HOLD_MS)
  /\ kbd.visualKeys = {"a"}

====
